---- MODULE Spec2Model ----
(***************************************************************************)
(* Transport data plane of rs/transport/src/data_plane.rs: the frame       *)
(* header codec (pack_header / unpack_header), the per-flow write task     *)
(* (spawn_write_task, write_one_message) and the per-flow read task        *)
(* (spawn_read_task, read_one_message, read_into_buffer).                  *)
(*                                                                         *)
(* Every await of the two async tasks is a step boundary: an action is the *)
(* code that runs from the completion of one await to the start of the     *)
(* next one.  The queue, the writer, the reader, the event handler and     *)
(* TransportImpl::on_disconnect are the environment: their results are     *)
(* chosen nondeterministically.                                            *)
(***************************************************************************)
EXTENDS Integers, Sequences, FiniteSets, TLC

(***************************************************************************)
(* Bounds of the model.                                                    *)
(***************************************************************************)
\* longest payload (bytes) the application enqueues or the peer frames
MaxPayloadLen == 1
\* number of payloads the application enqueues over a write-only run
MaxQueue == 2
\* most payloads one dequeue call returns
MaxBatch == 2
\* write-task loop iterations explored
MaxWriteIters == 3
\* number of times the peer sends on a read-only run
MaxPeerSends == 3
\* the same three for a run of both tasks of a connection
JointQueue == 1
JointWriteIters == 2
JointPeerSends == 1
\* a run of the read task on payloads that take MaxChunks chunk reads, of
\* which the peer sends at most ChunkSends frames
MaxChunks == 2
ChunkSends == 1
\* milliseconds in one tick of the clock
TickMs == 2000
\* pack_header is called on its own with every payload length up to this one
MaxPackLen == 40
\* a run of a write task and the read task of the peer it is connected to: the
\* application enqueues up to LinkQueue payloads, the write task starts up to
\* LinkWriteIters iterations
LinkQueue == 1
LinkWriteIters == 3

\* byte values payloads are made of
PayloadBytes == {1}

RECURSIVE SeqsUpTo(_, _)
\* all sequences over S of length at most n
SeqsUpTo(S, n) ==
    IF n = 0 THEN {<<>>}
    ELSE LET shorter == SeqsUpTo(S, n - 1)
         IN  shorter \cup {Append(s, x) : s \in {t \in shorter : Len(t) = n - 1}, x \in S}

Payloads == SeqsUpTo(PayloadBytes, MaxPayloadLen)

\* (peer_id, channel_id) pairs a connection is created for
Flows == {<<"node_a", 0>>, <<"node_b", 1>>}

(***************************************************************************)
(* Constants of the program.                                               *)
(***************************************************************************)
DEQUEUE_BYTES == 100 * 4 * 1490
SOCKET_READ_CHUNK_SIZE == 32 * 1024
\* types.rs: size of the header on the wire, and the heartbeat bit of flags
TRANSPORT_HEADER_SIZE == 8
\* const TRANSPORT_HEARTBEAT_WAIT_INTERVAL_MS: u64
TRANSPORT_HEARTBEAT_WAIT_INTERVAL_MS == 5000
\* let heartbeat_timeout = Duration::from_millis(..), in ticks of the clock
heartbeat_timeout == TRANSPORT_HEARTBEAT_WAIT_INTERVAL_MS \div TickMs
\* const TRANSPORT_HEARTBEAT_SEND_INTERVAL_MS: u64
TRANSPORT_HEARTBEAT_SEND_INTERVAL_MS == 200
\* the dequeue call given the heartbeat wait interval as its timeout
dequeue_timeout_WaitInterval == (TRANSPORT_HEARTBEAT_WAIT_INTERVAL_MS + TickMs - 1) \div TickMs

\* Duration::from_millis(TRANSPORT_HEARTBEAT_SEND_INTERVAL_MS), the timeout of
\* the dequeue call, in ticks of the clock (a started tick counts)
dequeue_timeout == (TRANSPORT_HEARTBEAT_SEND_INTERVAL_MS + TickMs - 1) \div TickMs
TRANSPORT_FLAGS_IS_HEARTBEAT == 1


(***************************************************************************)
(* Integer helpers: Rust's to_le_bytes / from_le_bytes and the u8 bit      *)
(* operators.                                                              *)
(***************************************************************************)
RECURSIVE Pow(_, _)
Pow(b, e) == IF e = 0 THEN 1 ELSE b * Pow(b, e - 1)

\* n.to_le_bytes() for an integer of `width` bytes: least significant first
to_le_bytes(n, width) == [i \in 1..width |-> (n \div Pow(256, i - 1)) % 256]

RECURSIVE from_le_bytes(_)
\* uN::from_le_bytes(bytes)
from_le_bytes(bytes) ==
    IF bytes = <<>> THEN 0
    ELSE Head(bytes) + 256 * from_le_bytes(Tail(bytes))

\* the cast to a u16: the low two bytes of n
as_u32_Narrow(n) == from_le_bytes(to_le_bytes(n, 2))

\* `n as u32`: the low four bytes of n
as_u32(n) == from_le_bytes(to_le_bytes(n, 4))

RECURSIVE BitAnd(_, _, _)
\* a & b over the low `bits` bits
BitAnd(a, b, bits) ==
    IF bits = 0 THEN 0
    ELSE ((a % 2) * (b % 2)) + 2 * BitAnd(a \div 2, b \div 2, bits - 1)

RECURSIVE BitOr(_, _, _)
\* a | b over the low `bits` bits
BitOr(a, b, bits) ==
    IF bits = 0 THEN 0
    ELSE (IF (a % 2) + (b % 2) > 0 THEN 1 ELSE 0) + 2 * BitOr(a \div 2, b \div 2, bits - 1)

\* Option<&TransportPayload>
None == <<>>
Some(payload) == <<payload>>

(***************************************************************************)
(* Frame codec.                                                            *)
(***************************************************************************)
\* pack_header with the length field written big-endian
pack_header_BigEndian(payload, heartbeat) ==
    LET len == IF payload = None THEN 0 ELSE as_u32(Len(payload[1]))
        le  == to_le_bytes(len, 4)
    IN  <<0, IF heartbeat THEN TRANSPORT_FLAGS_IS_HEARTBEAT ELSE 0, 0, 0,
          le[4], le[3], le[2], le[1]>>

\* pack_header that never sets the heartbeat flag
pack_header_NoFlag(payload, heartbeat) ==
    LET len == IF payload = None THEN 0 ELSE as_u32(Len(payload[1]))
    IN  <<0, 0>> \o to_le_bytes(0, 2) \o to_le_bytes(len, 4)

\* pack_header that takes the heartbeat flag from the payload being None
pack_header_FlagFromPayload(payload, heartbeat) ==
    LET len == IF payload = None THEN 0 ELSE as_u32(Len(payload[1]))
    IN  <<0, IF payload = None THEN TRANSPORT_FLAGS_IS_HEARTBEAT ELSE 0>>
        \o to_le_bytes(0, 2) \o to_le_bytes(len, 4)

\* fn pack_header(payload: Option<&TransportPayload>, heartbeat: bool) -> Vec<u8>
pack_header(payload, heartbeat) ==
    LET header0 == [version |-> 0,
                    flags |-> 0,
                    reserved |-> 0,
                    payload_length |-> IF payload = None THEN 0
                                       ELSE as_u32(Len(payload[1]))]
        header  == IF heartbeat
                   THEN [header0 EXCEPT !.flags = BitOr(@, TRANSPORT_FLAGS_IS_HEARTBEAT, 8)]
                   ELSE header0
    IN  to_le_bytes(header.version, 1) \o to_le_bytes(header.flags, 1)
        \o to_le_bytes(header.reserved, 2) \o to_le_bytes(header.payload_length, 4)

\* unpack_header reading the payload length from the reserved field's offset
unpack_header_WrongOffset(data) ==
    [version |-> from_le_bytes(SubSeq(data, 1, 1)),
     flags |-> from_le_bytes(SubSeq(data, 2, 2)),
     reserved |-> from_le_bytes(SubSeq(data, 3, 4)),
     payload_length |-> from_le_bytes(SubSeq(data, 3, 6))]

\* unpack_header that brings the header to the form pack_header writes: the
\* version and the reserved field zero, only the heartbeat bit kept in flags
unpack_header_Normalising(data) ==
    [version |-> 0,
     flags |-> from_le_bytes(SubSeq(data, 2, 2)) % 2,
     reserved |-> 0,
     payload_length |-> from_le_bytes(SubSeq(data, 5, 8))]

\* fn unpack_header(data: Vec<u8>) -> TransportHeader
unpack_header(data) ==
    LET version_byte == SubSeq(data, 1, 1)
        rest1 == SubSeq(data, 2, Len(data))
        flags_byte == SubSeq(rest1, 1, 1)
        rest2 == SubSeq(rest1, 2, Len(rest1))
        reserved_bytes == SubSeq(rest2, 1, 2)
        rest3 == SubSeq(rest2, 3, Len(rest2))
        payload_length_bytes == SubSeq(rest3, 1, 4)
    IN  [version |-> from_le_bytes(version_byte),
         flags |-> from_le_bytes(flags_byte),
         reserved |-> from_le_bytes(reserved_bytes),
         payload_length |-> from_le_bytes(payload_length_bytes)]

\* the heartbeat test with the mask of the next flag bit
is_heartbeat_WrongMask(header) == BitAnd(header.flags, 2, 8) # 0

\* header.flags & TRANSPORT_FLAGS_IS_HEARTBEAT != 0
is_heartbeat(header) == BitAnd(header.flags, TRANSPORT_FLAGS_IS_HEARTBEAT, 8) # 0

(***************************************************************************)
(* State.                                                                  *)
(***************************************************************************)
VARIABLES
    \* the arguments of a pack_header call made on its own, the payload given
    \* by its length, and what the call returned
    pack_input, pack_output,
    \* arguments both tasks are spawned with
    peer_id, channel_id,
    \* TRUE while the owner still holds its Arc<TransportImpl>
    owner,
    \* the create_connected_state call the tasks come from (its position, its
    \* arguments use_h2 and role, the h2 connection task, its result), and the
    \* spawn_write_task / spawn_read_task calls made so far with their arguments
    conn, spawned,
    \* number of weak_self.upgrade() calls of the write task and of the read task
    w_upgrades, r_upgrades,
    \* write task: position, the Arc it holds (arc_self), iterations started
    w_pc, w_arc, w_iter,
    \* payloads the application enqueues over the run, not yet dequeued
    send_queue,
    \* locals of the current iteration
    dequeued, bytes_to_send,
    \* calls made on the queue and the writer: number of dequeue calls, the
    \* write_all calls (buffer, drain and outcome of each), number of flush calls
    dequeue_calls, writes, flush_calls,
    \* the Instant the timeout of the pending dequeue call ends at, and the local
    \* start_time of the current iteration, in ticks of the clock
    dequeue_deadline, start_time,
    \* bytes the writer accepted, in order
    wire,
    \* data_plane_metrics of the write path
    heart_beats_sent, write_bytes_total, send_message_duration,
    \* calls of TransportImpl::on_disconnect, in order
    disconnects,
    \* read task: position, the Arc it holds, locals of read_one_message;
    \* payload_buffer holds the bytes [0, cur_offset) of the Vec, whose other
    \* `remaining` bytes are still the zeros it was created with
    r_pc, r_arc, r_header, payload_buffer, remaining, cur_offset, r_err,
    \* number of read_into_buffer calls, and how the reader ended the last one
    read_calls, reader_event,
    \* the clock of the runtime in ticks, the Instant read_one_message was
    \* called at, and the deadline of the timeout of the pending read
    now, read_message_start, read_deadline,
    \* the slices payload_buffer[offset..offset + size] the chunk reads of the
    \* current read_one_message call were issued for, in order
    chunk_reads,
    \* bytes that arrived on the reader and are not read yet; peer closed
    inbound, eof,
    \* every byte that ever arrived on the reader, in order
    received,
    \* what the peer still may send, the payloads it framed with the codec,
    \* and whether everything it sent so far was framed with the codec
    peer_budget, peer_sent, peer_clean,
    \* calls of the event handler, in order
    events,
    \* data_plane_metrics of the read path
    heart_beats_received, read_bytes_total, message_read_errors_total

cfg_vars == <<peer_id, channel_id, owner, conn, spawned, pack_input, pack_output>>
w_vars == <<w_pc, w_arc, w_iter, w_upgrades, send_queue, dequeued, bytes_to_send,
            dequeue_calls, dequeue_deadline, start_time, writes, flush_calls, wire,
            heart_beats_sent, write_bytes_total, send_message_duration>>
r_vars == <<r_pc, r_arc, r_upgrades, r_header, payload_buffer, remaining, cur_offset,
            r_err, read_calls, reader_event, chunk_reads, inbound, eof, received, peer_budget, peer_sent, peer_clean, events,
            heart_beats_received, read_bytes_total, message_read_errors_total, now, read_message_start, read_deadline>>
vars == <<cfg_vars, w_vars, r_vars, disconnects>>

\* weak_self.upgrade(): succeeds while any Arc<TransportImpl> is alive
upgrade == owner \/ w_arc \/ r_arc

\* arc_self.on_disconnect(peer_id, channel_id), called by `task`
on_disconnect(task, peer, channel) ==
    Append(disconnects, [task |-> task, peer_id |-> peer, channel_id |-> channel])

(***************************************************************************)
(* Write task.                                                             *)
(***************************************************************************)
RECURSIVE total_bytes(_)
total_bytes(payloads) ==
    IF payloads = <<>> THEN 0
    ELSE Len(Head(payloads)) + total_bytes(Tail(payloads))

\* send_queue_reader.dequeue(bytes_limit, timeout): the next payloads of the
\* queue, none when the timeout expires first
dequeue(queue, bytes_limit) ==
    {SubSeq(queue, 1, k) : k \in {j \in 0..Len(queue) :
        j <= MaxBatch /\ total_bytes(SubSeq(queue, 1, j)) <= bytes_limit}}

RECURSIVE aggregate_PayloadFirst(_)
\* aggregate with the two appends swapped: each payload before its header
aggregate_PayloadFirst(payloads) ==
    IF payloads = <<>> THEN <<>>
    ELSE Head(payloads) \o pack_header(Some(Head(payloads)), FALSE)
         \o aggregate_PayloadFirst(Tail(payloads))

RECURSIVE aggregate_Reversed(_)
\* aggregate that takes the payloads last first
aggregate_Reversed(payloads) ==
    IF payloads = <<>> THEN <<>>
    ELSE aggregate_Reversed(Tail(payloads))
         \o pack_header(Some(Head(payloads)), FALSE) \o Head(payloads)

RECURSIVE aggregate_SkipEmpty(_)
\* aggregate that writes no frame for a payload without bytes
aggregate_SkipEmpty(payloads) ==
    IF payloads = <<>> THEN <<>>
    ELSE (IF Head(payloads) = <<>> THEN <<>>
          ELSE pack_header(Some(Head(payloads)), FALSE) \o Head(payloads))
         \o aggregate_SkipEmpty(Tail(payloads))

RECURSIVE aggregate(_)
\* for mut payload in dequeued { append pack_header(Some(&payload), false);
\*                               append payload.0 }
aggregate(payloads) ==
    IF payloads = <<>> THEN <<>>
    ELSE pack_header(Some(Head(payloads)), FALSE) \o Head(payloads)
         \o aggregate(Tail(payloads))

\* W_LoopHead as a plain `loop`: no upgrade of weak_self at the loop head
W_LoopHead_NoCheck(limit) ==
    /\ w_pc = "loop"
    /\ w_iter < limit
    /\ w_arc' = TRUE
    /\ w_iter' = w_iter + 1
    /\ dequeue_calls' = dequeue_calls + 1
    /\ dequeue_deadline' = now + dequeue_timeout
    /\ w_pc' = "dequeue"
    /\ UNCHANGED <<cfg_vars, r_vars, start_time, disconnects, send_queue, dequeued, bytes_to_send,
                   writes, flush_calls, wire, heart_beats_sent, write_bytes_total,
                   send_message_duration, w_upgrades>>

\* W_LoopHead behind a lock the read task holds across its event handler
\* call: no iteration starts while the handler is pending
W_LoopHead_SharedLock(limit) ==
    /\ w_pc = "loop"
    /\ r_pc # "event_handler"
    /\ IF upgrade
       THEN /\ w_iter < limit
            /\ w_arc' = TRUE
            /\ w_iter' = w_iter + 1
            /\ dequeue_calls' = dequeue_calls + 1
            /\ dequeue_deadline' = now + dequeue_timeout
            /\ w_pc' = "dequeue"
       ELSE /\ w_pc' = "done"
            /\ UNCHANGED <<w_arc, w_iter, dequeue_calls, dequeue_deadline>>
    /\ w_upgrades' = w_upgrades + 1
    /\ UNCHANGED <<cfg_vars, r_vars, start_time, disconnects, send_queue, dequeued, bytes_to_send,
                   writes, flush_calls, wire, heart_beats_sent, write_bytes_total,
                   send_message_duration>>

\* W_LoopHead that only tests weak_self.upgrade().is_some(): the Arc it gets
\* is dropped at once, and the iteration runs without one
W_LoopHead_WeakOnly(limit) ==
    /\ w_pc = "loop"
    /\ IF upgrade
       THEN /\ w_iter < limit
            /\ w_iter' = w_iter + 1
            /\ dequeue_calls' = dequeue_calls + 1
            /\ dequeue_deadline' = now + dequeue_timeout
            /\ w_pc' = "dequeue"
       ELSE /\ w_pc' = "done"
            /\ UNCHANGED <<w_iter, dequeue_calls, dequeue_deadline>>
    /\ w_upgrades' = w_upgrades + 1
    /\ UNCHANGED <<cfg_vars, r_vars, start_time, disconnects, send_queue, dequeued, bytes_to_send,
                   writes, flush_calls, wire, heart_beats_sent, write_bytes_total,
                   send_message_duration, w_arc>>

\* while let Some(arc_self) = weak_self.upgrade(), then the dequeue call; at
\* most `limit` iterations are explored
W_LoopHead(limit) ==
    /\ w_pc = "loop"
    /\ IF upgrade
       THEN /\ w_iter < limit
            /\ w_arc' = TRUE
            /\ w_iter' = w_iter + 1
            /\ dequeue_calls' = dequeue_calls + 1
            /\ dequeue_deadline' = now + dequeue_timeout
            /\ w_pc' = "dequeue"
       ELSE /\ w_pc' = "done"
            /\ UNCHANGED <<w_arc, w_iter, dequeue_calls, dequeue_deadline>>
    /\ w_upgrades' = w_upgrades + 1
    /\ UNCHANGED <<cfg_vars, r_vars, start_time, disconnects, send_queue, dequeued, bytes_to_send,
                   writes, flush_calls, wire, heart_beats_sent, write_bytes_total,
                   send_message_duration>>

\* W_Dequeued with heart_beats_sent.inc() after the if, not in its first branch
W_Dequeued_CountAll(items) ==
    /\ w_pc = "dequeue"
    /\ items \in dequeue(send_queue, DEQUEUE_BYTES)
    /\ send_queue' = SubSeq(send_queue, Len(items) + 1, Len(send_queue))
    /\ dequeued' = items
    /\ LET bytes == IF items = <<>> THEN pack_header(None, TRUE) ELSE aggregate(items)
       IN  /\ bytes_to_send' = bytes
           /\ writes' = Append(writes, [bytes |-> bytes, drain |-> items,
                                        result |-> "pending"])
    /\ heart_beats_sent' = heart_beats_sent + 1
    /\ start_time' = now
    /\ w_pc' = "write_all"
    /\ UNCHANGED <<cfg_vars, r_vars, w_upgrades, disconnects, w_arc, w_iter, dequeue_calls, dequeue_deadline,
                   flush_calls, wire, write_bytes_total, send_message_duration>>

\* W_Dequeued that puts a heartbeat header in front of every buffer, and the
\* frames of the payloads after it
W_Dequeued_HeartbeatFirst(items) ==
    /\ w_pc = "dequeue"
    /\ items \in dequeue(send_queue, DEQUEUE_BYTES)
    /\ send_queue' = SubSeq(send_queue, Len(items) + 1, Len(send_queue))
    /\ dequeued' = items
    /\ LET bytes == pack_header(None, TRUE) \o aggregate(items)
       IN  /\ bytes_to_send' = bytes
           /\ writes' = Append(writes, [bytes |-> bytes, drain |-> items,
                                        result |-> "pending"])
    /\ heart_beats_sent' = IF items = <<>> THEN heart_beats_sent + 1 ELSE heart_beats_sent
    /\ start_time' = now
    /\ w_pc' = "write_all"
    /\ UNCHANGED <<cfg_vars, r_vars, w_upgrades, disconnects, w_arc, w_iter, dequeue_calls, dequeue_deadline,
                   flush_calls, wire, write_bytes_total, send_message_duration>>

\* the dequeue returns `items`: the buffer is built and write_all is called
W_Dequeued(items) ==
    /\ w_pc = "dequeue"
    /\ items \in dequeue(send_queue, DEQUEUE_BYTES)
    /\ send_queue' = SubSeq(send_queue, Len(items) + 1, Len(send_queue))
    /\ dequeued' = items
    /\ LET bytes == IF items = <<>> THEN pack_header(None, TRUE) ELSE aggregate(items)
       IN  /\ bytes_to_send' = bytes
           /\ writes' = Append(writes, [bytes |-> bytes, drain |-> items,
                                        result |-> "pending"])
    /\ heart_beats_sent' = IF items = <<>> THEN heart_beats_sent + 1 ELSE heart_beats_sent
    /\ start_time' = now
    /\ w_pc' = "write_all"
    /\ UNCHANGED <<cfg_vars, r_vars, w_upgrades, disconnects, w_arc, w_iter, dequeue_calls, dequeue_deadline,
                   flush_calls, wire, write_bytes_total, send_message_duration>>

\* outcome `result` of the pending write_all call is recorded
set_result(result) == [writes EXCEPT ![Len(writes)].result = result]

\* W_WriteAll that calls flush without awaiting it: the iteration ends while
\* the flush is still in progress
W_WriteAll_FlushNotAwaited(ok) ==
    /\ w_pc = "write_all"
    /\ IF ok
       THEN /\ wire' = wire \o bytes_to_send
            /\ writes' = set_result("accepted")
            /\ flush_calls' = flush_calls + 1
            /\ send_message_duration' = send_message_duration + 1
            /\ write_bytes_total' = write_bytes_total + Len(bytes_to_send)
            /\ w_arc' = FALSE
            /\ w_pc' = "loop"
            /\ UNCHANGED disconnects
       ELSE /\ writes' = set_result("write_err")
            /\ disconnects' = on_disconnect("write", peer_id, channel_id)
            /\ w_pc' = "on_disconnect"
            /\ UNCHANGED <<wire, flush_calls, send_message_duration, write_bytes_total,
                           w_arc>>
    /\ UNCHANGED <<cfg_vars, r_vars, w_upgrades, w_iter, send_queue, dequeued,
                   bytes_to_send, dequeue_calls, dequeue_deadline, start_time, heart_beats_sent>>

\* write_one_message wrapped in a timeout of heartbeat_timeout: a write that
\* does not complete ends as Elapsed, and the task reports a disconnect
W_WriteAll_Timeout(ok) ==
    /\ w_pc = "write_all"
    /\ IF ok
       THEN /\ wire' = wire \o bytes_to_send
            /\ writes' = set_result("accepted")
            /\ flush_calls' = flush_calls + 1
            /\ w_pc' = "flush"
            /\ UNCHANGED disconnects
       ELSE /\ writes' = set_result("elapsed")
            /\ disconnects' = on_disconnect("write", peer_id, channel_id)
            /\ w_pc' = "on_disconnect"
            /\ UNCHANGED <<wire, flush_calls>>
    /\ UNCHANGED <<cfg_vars, r_vars, w_upgrades, w_arc, w_iter, send_queue, dequeued, bytes_to_send,
                   dequeue_calls, dequeue_deadline, start_time, heart_beats_sent, write_bytes_total,
                   send_message_duration>>

\* writer.write_all(&bytes_to_send).await? of write_one_message, and the
\* Err branch of spawn_write_task
W_WriteAll(ok) ==
    /\ w_pc = "write_all"
    /\ IF ok
       THEN /\ wire' = wire \o bytes_to_send
            /\ writes' = set_result("accepted")
            /\ flush_calls' = flush_calls + 1
            /\ w_pc' = "flush"
            /\ UNCHANGED disconnects
       ELSE /\ writes' = set_result("write_err")
            /\ disconnects' = on_disconnect("write", peer_id, channel_id)
            /\ w_pc' = "on_disconnect"
            /\ UNCHANGED <<wire, flush_calls>>
    /\ UNCHANGED <<cfg_vars, r_vars, w_upgrades, w_arc, w_iter, send_queue, dequeued, bytes_to_send,
                   dequeue_calls, dequeue_deadline, start_time, heart_beats_sent, write_bytes_total,
                   send_message_duration>>

\* W_Flush with the two metrics updated before the result is looked at
W_Flush_MetricsFirst(ok) ==
    /\ w_pc = "flush"
    /\ send_message_duration' = send_message_duration + 1
    /\ write_bytes_total' = write_bytes_total + Len(bytes_to_send)
    /\ IF ok
       THEN /\ writes' = set_result("ok")
            /\ w_arc' = FALSE
            /\ w_pc' = "loop"
            /\ UNCHANGED disconnects
       ELSE /\ writes' = set_result("flush_err")
            /\ disconnects' = on_disconnect("write", peer_id, channel_id)
            /\ w_pc' = "on_disconnect"
            /\ UNCHANGED w_arc
    /\ UNCHANGED <<cfg_vars, r_vars, w_upgrades, w_iter, send_queue, dequeued,
                   bytes_to_send, dequeue_calls, dequeue_deadline, start_time, flush_calls, wire, heart_beats_sent>>

\* writer.flush().await of write_one_message, then either the Err branch or
\* the two metrics and the end of the iteration (arc_self is dropped)
W_Flush(ok) ==
    /\ w_pc = "flush"
    /\ IF ok
       THEN /\ writes' = set_result("ok")
            /\ send_message_duration' = send_message_duration + 1
            /\ write_bytes_total' = write_bytes_total + Len(bytes_to_send)
            /\ w_arc' = FALSE
            /\ w_pc' = "loop"
            /\ UNCHANGED disconnects
       ELSE /\ writes' = set_result("flush_err")
            /\ disconnects' = on_disconnect("write", peer_id, channel_id)
            /\ w_pc' = "on_disconnect"
            /\ UNCHANGED <<send_message_duration, write_bytes_total, w_arc>>
    /\ UNCHANGED <<cfg_vars, r_vars, w_upgrades, w_iter, send_queue, dequeued, bytes_to_send,
                   dequeue_calls, dequeue_deadline, start_time, flush_calls, wire, heart_beats_sent>>

\* W_Disconnected without the `return`: the loop goes on after the callback
W_Disconnected_NoReturn ==
    /\ w_pc = "on_disconnect"
    /\ w_pc' = "loop"
    /\ w_arc' = FALSE
    /\ UNCHANGED <<cfg_vars, r_vars, w_upgrades, disconnects, w_iter, send_queue, dequeued,
                   bytes_to_send, dequeue_calls, dequeue_deadline, start_time, writes, flush_calls, wire,
                   heart_beats_sent, write_bytes_total, send_message_duration>>

\* W_Disconnected that starts the connection setup again before it returns
W_Disconnected_Reconnect ==
    /\ w_pc = "on_disconnect"
    /\ w_pc' = "done"
    /\ w_arc' = FALSE
    /\ conn' = [conn EXCEPT !.pc = "start", !.result = "none"]
    /\ UNCHANGED <<pack_input, pack_output, peer_id, channel_id, owner, spawned, r_vars, w_upgrades, disconnects,
                   w_iter, send_queue, dequeued, bytes_to_send, dequeue_calls, dequeue_deadline, start_time, writes,
                   flush_calls, wire, heart_beats_sent, write_bytes_total,
                   send_message_duration>>

\* on_disconnect(..).await completes; return
W_Disconnected ==
    /\ w_pc = "on_disconnect"
    /\ w_pc' = "done"
    /\ w_arc' = FALSE
    /\ UNCHANGED <<cfg_vars, r_vars, w_upgrades, disconnects, w_iter, send_queue, dequeued,
                   bytes_to_send, dequeue_calls, dequeue_deadline, start_time, writes, flush_calls, wire,
                   heart_beats_sent, write_bytes_total, send_message_duration>>

WriteTask(limit) ==
    \/ W_LoopHead(limit)
    \/ \E items \in SeqsUpTo(Payloads, MaxBatch) : W_Dequeued(items)
    \/ \E ok \in BOOLEAN : W_WriteAll(ok)
    \/ \E ok \in BOOLEAN : W_Flush(ok)
    \/ W_Disconnected

(***************************************************************************)
(* Read task.                                                              *)
(***************************************************************************)
\* std::cmp::min returning the larger argument
Min_Larger(a, b) == IF a <= b THEN b ELSE a

Min(a, b) == IF a <= b THEN a ELSE b

\* how tokio::time::timeout(timeout, reader.read_exact(buf)) can end for a
\* buf of n bytes: read_exact completes once n bytes arrived ("ready_ok"),
\* fails on an I/O error or when the stream ends before n bytes
\* ("ready_err"), and the timeout fires while bytes are still missing on an
\* open stream ("elapsed")
reader_events(n) ==
    (IF Len(inbound) >= n THEN {"ready_ok"} ELSE {})
    \cup (IF Len(inbound) < n /\ ~eof THEN {"elapsed"} ELSE {})
    \cup {"ready_err"}

\* the match of read_into_buffer with the two error arms exchanged
read_into_buffer_Swapped(event) ==
    CASE event = "elapsed" -> "Failed"
      [] event = "ready_ok" -> "Ok"
      [] event = "ready_err" -> "TimeOut"

\* the match of read_into_buffer
read_into_buffer(event) ==
    CASE event = "elapsed" -> "TimeOut"
      [] event = "ready_ok" -> "Ok"
      [] event = "ready_err" -> "Failed"

\* the Err(err) branch without the on_disconnect call
read_error_NoCallback(err) ==
    /\ r_err' = err
    /\ message_read_errors_total' =
           [message_read_errors_total EXCEPT ![err] = @ + 1]
    /\ UNCHANGED disconnects
    /\ r_pc' = "on_disconnect"

\* the Err(err) branch with on_disconnect called for Failed only: a timeout
\* ends the task without telling the manager
read_error_FailedOnly(err) ==
    /\ r_err' = err
    /\ message_read_errors_total' =
           [message_read_errors_total EXCEPT ![err] = @ + 1]
    /\ disconnects' = IF err = "Failed"
                      THEN on_disconnect("read", peer_id, channel_id)
                      ELSE disconnects
    /\ r_pc' = "on_disconnect"

\* Err(err) branch of spawn_read_task: the error metric, then on_disconnect
read_error(err) ==
    /\ r_err' = err
    /\ message_read_errors_total' =
           [message_read_errors_total EXCEPT ![err] = @ + 1]
    /\ disconnects' = on_disconnect("read", peer_id, channel_id)
    /\ r_pc' = "on_disconnect"

\* deliver that calls the event handler a second time with the same message
deliver_Twice(payload) ==
    /\ read_bytes_total' = read_bytes_total + Len(payload)
    /\ events' = Append(Append(events, [peer_id |-> peer_id, payload |-> payload]),
                        [peer_id |-> peer_id, payload |-> payload])
    /\ r_pc' = "event_handler"

\* deliver without the .await on the handler's future: the loop goes on at once
deliver_NoAwait(payload) ==
    /\ read_bytes_total' = read_bytes_total + Len(payload)
    /\ events' = Append(events, [peer_id |-> peer_id, payload |-> payload])
    /\ r_pc' = "loop"

\* Ok((header, payload)) branch of spawn_read_task for a data frame: the
\* metrics, then event_handler.call(TransportEvent::Message{peer_id, payload})
deliver(payload) ==
    /\ read_bytes_total' = read_bytes_total + Len(payload)
    /\ events' = Append(events, [peer_id |-> peer_id, payload |-> payload])
    /\ r_pc' = "event_handler"

\* issue_read with one deadline for the whole read_one_message call
issue_read_PerMessage ==
    /\ read_calls' = read_calls + 1
    /\ read_deadline' = (IF r_pc = "loop" THEN now ELSE read_message_start)
                        + heartbeat_timeout

\* read_into_buffer(reader, buf, timeout) is called: the timeout of this one
\* read starts now, tokio::time::timeout(timeout, reader.read_exact(buf))
issue_read ==
    /\ read_calls' = read_calls + 1
    /\ read_deadline' = now + heartbeat_timeout

\* the instant at which the pending read ends with `event`: the timer fires
\* at the deadline, the reader is ready at any time
time_of(event) ==
    IF event = "elapsed" /\ now < read_deadline THEN read_deadline ELSE now

\* payload_slice without the min: every chunk read is for a whole chunk
payload_slice_WholeChunk(offset, rem) ==
    [offset |-> offset, size |-> SOCKET_READ_CHUNK_SIZE]

\* &mut payload_buffer[cur_offset..(cur_offset + cur_chunk_size)] with
\* cur_chunk_size = min(remaining, SOCKET_READ_CHUNK_SIZE): the slice the next
\* chunk read is issued for
payload_slice(offset, rem) ==
    [offset |-> offset, size |-> Min(rem, SOCKET_READ_CHUNK_SIZE)]

\* while let Some(arc_self) = weak_self.upgrade(), then read_one_message
\* starts the header read
R_LoopHead ==
    /\ r_pc = "loop"
    /\ IF upgrade
       THEN /\ r_arc' = TRUE
            /\ read_message_start' = now
            /\ issue_read
            /\ chunk_reads' = <<>>
            /\ r_pc' = "read_header"
       ELSE /\ r_pc' = "done"
            /\ UNCHANGED <<r_arc, read_calls, chunk_reads, read_message_start,
                           read_deadline>>
    /\ r_upgrades' = r_upgrades + 1
    /\ UNCHANGED <<cfg_vars, w_vars, received, disconnects, r_header, payload_buffer, remaining,
                   cur_offset, r_err, reader_event, inbound, eof, peer_budget, peer_sent, peer_clean,
                   events, heart_beats_received, read_bytes_total,
                   message_read_errors_total, now>>

\* the header read of read_one_message ends with `event`
R_ReadHeader(event) ==
    /\ r_pc = "read_header"
    /\ event \in reader_events(TRANSPORT_HEADER_SIZE)
    /\ reader_event' = event
    /\ now' = time_of(event)
    /\ IF read_into_buffer(event) = "Ok"
       THEN LET header_buffer == SubSeq(inbound, 1, TRANSPORT_HEADER_SIZE)
                header == unpack_header(header_buffer)
            IN  /\ inbound' = SubSeq(inbound, TRANSPORT_HEADER_SIZE + 1, Len(inbound))
                /\ r_header' = header
                /\ IF is_heartbeat(header)
                   THEN \* return Ok((header, TransportPayload::default())); the task
                        \* counts the heartbeat and continues
                        /\ heart_beats_received' = heart_beats_received + 1
                        /\ r_arc' = FALSE
                        /\ r_pc' = "loop"
                        /\ UNCHANGED <<payload_buffer, remaining, cur_offset,
                                       read_bytes_total, events, read_calls,
                                       chunk_reads, read_deadline>>
                   ELSE /\ payload_buffer' = <<>>
                        /\ remaining' = header.payload_length
                        /\ cur_offset' = 0
                        /\ IF header.payload_length > 0
                           THEN /\ r_pc' = "read_chunk"
                                /\ issue_read
                                /\ chunk_reads' = <<payload_slice(0, header.payload_length)>>
                                /\ UNCHANGED <<read_bytes_total, events>>
                           ELSE /\ deliver(<<>>)
                                /\ chunk_reads' = <<>>
                                /\ UNCHANGED <<read_calls, read_deadline>>
                        /\ UNCHANGED <<heart_beats_received, r_arc>>
                /\ UNCHANGED <<r_err, message_read_errors_total, disconnects>>
       ELSE /\ read_error(read_into_buffer(event))
            /\ UNCHANGED <<inbound, r_header, payload_buffer, remaining, cur_offset,
                           heart_beats_received, read_bytes_total, events, r_arc,
                           read_calls, chunk_reads, read_deadline>>
    /\ UNCHANGED <<cfg_vars, w_vars, r_upgrades, received, eof, peer_budget, peer_sent,
                   peer_clean, read_message_start>>

\* R_ReadChunk with a read that returns what has arrived when the timeout
\* fires, as if it were the whole chunk
R_ReadChunk_PartialOk(event) ==
    /\ r_pc = "read_chunk"
    /\ LET cur_chunk_size == payload_slice(cur_offset, remaining).size
           got == Min(cur_chunk_size, Len(inbound))
           success == event = "ready_ok" \/ (event = "elapsed" /\ got > 0)
       IN  /\ event \in reader_events(cur_chunk_size)
           /\ reader_event' = event
           /\ now' = time_of(event)
           /\ IF success
              THEN LET buffer == SubSeq(payload_buffer, 1, cur_offset)
                                 \o SubSeq(inbound, 1, got)
                   IN  /\ inbound' = SubSeq(inbound, got + 1, Len(inbound))
                       /\ payload_buffer' = buffer
                       /\ remaining' = remaining - cur_chunk_size
                       /\ cur_offset' = cur_offset + cur_chunk_size
                       /\ IF remaining - cur_chunk_size > 0
                          THEN /\ issue_read
                               /\ chunk_reads' =
                                      Append(chunk_reads,
                                             payload_slice(cur_offset + cur_chunk_size,
                                                           remaining - cur_chunk_size))
                               /\ UNCHANGED <<r_pc, read_bytes_total, events>>
                          ELSE /\ deliver(buffer)
                               /\ UNCHANGED <<read_calls, chunk_reads, read_deadline>>
                       /\ UNCHANGED <<r_err, message_read_errors_total, disconnects>>
              ELSE /\ read_error(read_into_buffer(event))
                   /\ UNCHANGED <<inbound, payload_buffer, remaining, cur_offset,
                                  read_bytes_total, events, read_calls, chunk_reads,
                                  read_deadline>>
    /\ UNCHANGED <<cfg_vars, w_vars, r_upgrades, received, r_arc, r_header,
                   heart_beats_received, eof,
                   peer_budget, peer_sent, peer_clean, read_message_start>>

\* one chunk read of read_one_message ends with `event`
R_ReadChunk(event) ==
    /\ r_pc = "read_chunk"
    /\ LET cur_chunk_size == payload_slice(cur_offset, remaining).size
       IN  /\ event \in reader_events(cur_chunk_size)
           /\ reader_event' = event
           /\ now' = time_of(event)
           /\ IF read_into_buffer(event) = "Ok"
              THEN LET buffer == SubSeq(payload_buffer, 1, cur_offset)
                                 \o SubSeq(inbound, 1, cur_chunk_size)
                   IN  /\ inbound' = SubSeq(inbound, cur_chunk_size + 1, Len(inbound))
                       /\ payload_buffer' = buffer
                       /\ remaining' = remaining - cur_chunk_size
                       /\ cur_offset' = cur_offset + cur_chunk_size
                       /\ IF remaining - cur_chunk_size > 0
                          THEN /\ issue_read
                               /\ chunk_reads' =
                                      Append(chunk_reads,
                                             payload_slice(cur_offset + cur_chunk_size,
                                                           remaining - cur_chunk_size))
                               /\ UNCHANGED <<r_pc, read_bytes_total, events>>
                          ELSE /\ deliver(buffer)
                               /\ UNCHANGED <<read_calls, chunk_reads, read_deadline>>
                       /\ UNCHANGED <<r_err, message_read_errors_total, disconnects>>
              ELSE /\ read_error(read_into_buffer(event))
                   /\ UNCHANGED <<inbound, payload_buffer, remaining, cur_offset,
                                  read_bytes_total, events, read_calls, chunk_reads,
                                  read_deadline>>
    /\ UNCHANGED <<cfg_vars, w_vars, r_upgrades, received, r_arc, r_header,
                   heart_beats_received, eof,
                   peer_budget, peer_sent, peer_clean, read_message_start>>

\* R_Handled with the handler call awaited under the heartbeat timeout as
\* well: a call that took longer ends in the Err arm
R_Handled_UnderTimeout ==
    /\ r_pc = "event_handler"
    /\ IF now >= read_deadline + heartbeat_timeout
       THEN /\ read_error("TimeOut")
            /\ UNCHANGED r_arc
       ELSE /\ r_arc' = FALSE
            /\ r_pc' = "loop"
            /\ UNCHANGED <<r_err, message_read_errors_total, disconnects>>
    /\ UNCHANGED <<cfg_vars, w_vars, r_upgrades, chunk_reads, received, r_header,
                   payload_buffer, remaining, cur_offset, read_calls, reader_event,
                   inbound, eof, peer_budget, peer_sent, peer_clean, events,
                   heart_beats_received, read_bytes_total, now, read_message_start,
                   read_deadline>>

\* event_handler.call(..).await completes; the iteration ends
R_Handled ==
    /\ r_pc = "event_handler"
    /\ r_arc' = FALSE
    /\ r_pc' = "loop"
    /\ UNCHANGED <<cfg_vars, w_vars, r_upgrades, chunk_reads, received, disconnects, r_header, payload_buffer, remaining,
                   cur_offset, r_err, read_calls, reader_event, inbound, eof,
                   peer_budget, peer_sent, peer_clean, events, heart_beats_received,
                   read_bytes_total, message_read_errors_total, now, read_message_start, read_deadline>>

\* R_Disconnected without the `return`: the loop goes on after the callback
R_Disconnected_NoReturn ==
    /\ r_pc = "on_disconnect"
    /\ r_arc' = FALSE
    /\ r_pc' = "loop"
    /\ UNCHANGED <<cfg_vars, w_vars, r_upgrades, chunk_reads, received, disconnects, r_header, payload_buffer, remaining,
                   cur_offset, r_err, read_calls, reader_event, inbound, eof,
                   peer_budget, peer_sent, peer_clean, events, heart_beats_received,
                   read_bytes_total, message_read_errors_total, now, read_message_start, read_deadline>>

\* R_Disconnected that also aborts the write task of the connection
R_Disconnected_AbortsWriter ==
    /\ r_pc = "on_disconnect"
    /\ r_arc' = FALSE
    /\ r_pc' = "done"
    /\ w_pc' = "done"
    /\ w_arc' = FALSE
    /\ UNCHANGED <<cfg_vars, disconnects, w_iter, w_upgrades, send_queue, dequeued,
                   bytes_to_send, dequeue_calls, dequeue_deadline, start_time, writes, flush_calls, wire,
                   heart_beats_sent, write_bytes_total, send_message_duration,
                   r_upgrades, chunk_reads, received, r_header, payload_buffer,
                   remaining, cur_offset, r_err, read_calls, reader_event, inbound, eof,
                   peer_budget, peer_sent, peer_clean, events, heart_beats_received,
                   read_bytes_total, message_read_errors_total, now, read_message_start, read_deadline>>

\* on_disconnect(..).await completes; return
R_Disconnected ==
    /\ r_pc = "on_disconnect"
    /\ r_arc' = FALSE
    /\ r_pc' = "done"
    /\ UNCHANGED <<cfg_vars, w_vars, r_upgrades, chunk_reads, received, disconnects, r_header, payload_buffer, remaining,
                   cur_offset, r_err, read_calls, reader_event, inbound, eof,
                   peer_budget, peer_sent, peer_clean, events, heart_beats_received,
                   read_bytes_total, message_read_errors_total, now, read_message_start, read_deadline>>

ReaderEvents == {"ready_ok", "elapsed", "ready_err"}

\* the Result the event handler's future resolves to
HandlerResults == {"Ok", "Err"}

\* R_HandlerReturns with an error of the handler treated like a read error:
\* on_disconnect and return
R_HandlerReturns_Disconnects(result) ==
    /\ r_pc = "event_handler"
    /\ IF result = "Ok"
       THEN /\ r_arc' = FALSE
            /\ r_pc' = "loop"
            /\ UNCHANGED disconnects
       ELSE /\ disconnects' = on_disconnect("read", peer_id, channel_id)
            /\ r_pc' = "on_disconnect"
            /\ UNCHANGED r_arc
    /\ UNCHANGED <<cfg_vars, w_vars, r_upgrades, chunk_reads, received, r_header,
                   payload_buffer, remaining, cur_offset, r_err, read_calls,
                   reader_event, inbound, eof, peer_budget, peer_sent, peer_clean,
                   events, heart_beats_received, read_bytes_total,
                   message_read_errors_total, now, read_message_start, read_deadline>>

\* event_handler.call(..).await.expect("Can't panic on infallible") with a
\* handler whose call may resolve to Err: on Ok the iteration ends, on Err
\* expect panics, the task unwinds (arc_self and the reader are dropped) and
\* is over
R_HandlerReturns(result) ==
    /\ r_pc = "event_handler"
    /\ r_arc' = FALSE
    /\ r_pc' = IF result = "Ok" THEN "loop" ELSE "panicked"
    /\ UNCHANGED <<cfg_vars, w_vars, r_upgrades, chunk_reads, received, disconnects,
                   r_header, payload_buffer, remaining, cur_offset, r_err, read_calls,
                   reader_event, inbound, eof, peer_budget, peer_sent, peer_clean,
                   events, heart_beats_received, read_bytes_total,
                   message_read_errors_total, now, read_message_start, read_deadline>>

\* the read task with such a handler
ReadTaskFallible ==
    \/ R_LoopHead
    \/ \E event \in ReaderEvents : R_ReadHeader(event)
    \/ \E event \in ReaderEvents : R_ReadChunk(event)
    \/ \E result \in HandlerResults : R_HandlerReturns(result)
    \/ R_Disconnected

ReadTask ==
    \/ R_LoopHead
    \/ \E event \in ReaderEvents : R_ReadHeader(event)
    \/ \E event \in ReaderEvents : R_ReadChunk(event)
    \/ R_Handled
    \/ R_Disconnected

(***************************************************************************)
(* The peer: the other end of the reader.  It runs the same write task, so *)
(* what it sends is an aggregate of payloads or a heartbeat header; a      *)
(* faulty or foreign peer sends any bytes.                                 *)
(***************************************************************************)
\* bytes no write task sends in one piece: a heartbeat that announces a
\* payload, a data header with version, reserved and an unused flag bit
\* set, a heartbeat with an unused flag bit set, a single byte, and a data
\* frame cut after the first byte of its payload
RawChunks ==
    { <<0, 1, 0, 0, 1, 0, 0, 0>>,
      <<1, 2, 5, 0, 1, 0, 0, 0>>,
      <<0, 3, 0, 0, 0, 0, 0, 0>>,
      <<1>>,
      pack_header(Some([i \in 1..(MaxPayloadLen + 1) |-> 1]), FALSE) \o <<1>> }

peer_send(bytes) ==
    /\ peer_budget > 0
    /\ ~eof
    /\ peer_budget' = peer_budget - 1
    /\ inbound' = inbound \o bytes
    /\ received' = received \o bytes
    /\ UNCHANGED <<cfg_vars, w_vars, r_upgrades, chunk_reads, disconnects, r_pc, r_arc, r_header, payload_buffer,
                   remaining, cur_offset, r_err, read_calls, reader_event, eof, events,
                   heart_beats_received, read_bytes_total, message_read_errors_total, now, read_message_start, read_deadline>>

PeerSendMessage(payload) ==
    /\ peer_send(aggregate(<<payload>>))
    /\ peer_sent' = Append(peer_sent, payload)
    /\ UNCHANGED peer_clean

PeerSendHeartbeat ==
    /\ peer_send(pack_header(None, TRUE))
    /\ UNCHANGED <<peer_sent, peer_clean>>

PeerSendRaw(bytes) ==
    /\ peer_send(bytes)
    /\ peer_clean' = FALSE
    /\ UNCHANGED peer_sent

PeerClose ==
    /\ ~eof
    /\ eof' = TRUE
    /\ UNCHANGED <<cfg_vars, w_vars, r_upgrades, chunk_reads, received, disconnects, r_pc, r_arc, r_header, payload_buffer,
                   remaining, cur_offset, r_err, read_calls, reader_event, inbound,
                   peer_budget, peer_sent, peer_clean, events, heart_beats_received,
                   read_bytes_total, message_read_errors_total, now, read_message_start, read_deadline>>

Peer ==
    \/ \E payload \in Payloads : PeerSendMessage(payload)
    \/ PeerSendHeartbeat
    \/ \E bytes \in RawChunks : PeerSendRaw(bytes)
    \/ PeerClose

\* the owner drops its Arc<TransportImpl>
OwnerDrop ==
    /\ owner
    /\ owner' = FALSE
    /\ UNCHANGED <<pack_input, pack_output, peer_id, channel_id, conn, spawned, w_vars, r_vars, disconnects>>

(***************************************************************************)
(* Connection setup: create_connected_state and its two h2 variants.       *)
(***************************************************************************)
\* the two halves of the backend stream: tokio::io::split(tls_stream), or the
\* send_stream and recv_stream of the one h2 request / response exchange
writer_of(stream) == [stream |-> stream, half |-> "writer"]
reader_of(stream) == [stream |-> stream, half |-> "reader"]

\* the arguments of a spawn_write_task / spawn_read_task call
spawn_args(task, peer, channel, io) ==
    [task |-> task, peer_id |-> peer, channel_id |-> channel, io |-> io]

\* the backend stream the tasks of a create_connected_state call run on
backend == IF conn.use_h2 THEN "h2_stream" ELSE "tls_stream"

\* the SocketAddr create_connected_state is called with for a peer
PeerAddr == [node_a |-> "10.0.0.1:4100", node_b |-> "10.0.0.2:4100"]

\* Connected { peer_addr, stream_state, h2_conn, role }
Connected(peer_addr, h2_conn, role) ==
    [peer_addr |-> peer_addr,
     stream_state |-> [read_task |-> "read_task", write_task |-> "write_task"],
     h2_conn |-> h2_conn,
     role |-> role]

\* the spawn functions called outside create_connected_state
Direct == [pc |-> "none", use_h2 |-> FALSE, role |-> "Server", peer_addr |-> "none",
           path |-> "none", h2_conn |-> FALSE, result |-> "none", connected |-> None]

\* create_connected_state(.., role, peer_addr, .., use_h2) has just been
\* called
Connecting(use_h2, role, peer_addr) ==
    [pc |-> "start", use_h2 |-> use_h2, role |-> role, peer_addr |-> peer_addr,
     path |-> "none", h2_conn |-> FALSE, result |-> "none", connected |-> None]

\* the raw backend's create_connected_state has returned Ok(Connected {..})
ConnectedRaw ==
    [pc |-> "done", use_h2 |-> FALSE, role |-> "Server", peer_addr |-> PeerAddr[peer_id],
     path |-> "raw", h2_conn |-> FALSE, result |-> "Ok",
     connected |-> Some(Connected(PeerAddr[peer_id], None, "Server"))]

\* the state of the write task but its position, and of the read task but
\* its position
w_rest == <<w_arc, w_iter, w_upgrades, send_queue, dequeued, bytes_to_send,
            dequeue_calls, dequeue_deadline, start_time, writes, flush_calls, wire,
            heart_beats_sent, write_bytes_total, send_message_duration>>
r_rest == <<r_arc, r_upgrades, r_header, payload_buffer, remaining, cur_offset,
            r_err, read_calls, reader_event, chunk_reads, inbound, eof, received,
            peer_budget, peer_sent, peer_clean, events,
            heart_beats_received, read_bytes_total, message_read_errors_total, now, read_message_start, read_deadline>>

\* spawn_write_task(peer_id, channel_id, send_queue_reader, writer, ..): the
\* task is spawned on the runtime
spawn_write_task(peer, channel, writer) ==
    /\ spawned' = Append(spawned, spawn_args("write", peer, channel, writer))
    /\ w_pc' = "loop"

\* spawn_read_task(peer_id, channel_id, event_handler, reader, ..)
spawn_read_task(peer, channel, reader) ==
    /\ spawned' = Append(spawned, spawn_args("read", peer, channel, reader))
    /\ r_pc' = "loop"

\* a `?` of the setup returns the error: no task is spawned
setup_failed ==
    /\ conn' = [conn EXCEPT !.pc = "done", !.result = "Err"]
    /\ UNCHANGED <<spawned, w_pc>>

\* the write task is spawned on the writer half; the read task is next
setup_spawns_writer ==
    /\ spawn_write_task(peer_id, channel_id, writer_of(backend))
    /\ conn' = [conn EXCEPT !.pc = "spawn_read"]

\* !use_h2: tokio::io::split(tls_stream), then spawn_write_task
C_RawSpawnWrite ==
    /\ conn.pc = "start"
    /\ ~conn.use_h2
    /\ spawn_write_task(peer_id, channel_id, writer_of(backend))
    /\ conn' = [conn EXCEPT !.pc = "spawn_read", !.path = "raw"]
    /\ UNCHANGED <<pack_input, pack_output, peer_id, channel_id, owner, disconnects, w_rest, r_vars>>

\* create_connected_state_for_h2_client: the h2 handshake; on success the
\* task driving the h2 connection is spawned
C_H2ClientHandshake(ok) ==
    /\ conn.pc = "start"
    /\ conn.use_h2
    /\ conn.role = "Client"
    /\ IF ok
       THEN /\ conn' = [conn EXCEPT !.pc = "h2_ready", !.path = "h2_client",
                                     !.h2_conn = TRUE]
            /\ UNCHANGED <<spawned, w_pc>>
       ELSE /\ conn' = [conn EXCEPT !.pc = "done", !.path = "h2_client",
                                     !.result = "Err"]
            /\ UNCHANGED <<spawned, w_pc>>
    /\ UNCHANGED <<pack_input, pack_output, peer_id, channel_id, owner, disconnects, w_rest, r_vars>>

\* h2.ready().await?, then h2.send_request(request, false)?
C_H2ClientReady(ok, sent) ==
    /\ conn.pc = "h2_ready"
    /\ IF ok /\ sent
       THEN /\ conn' = [conn EXCEPT !.pc = "h2_response"]
            /\ UNCHANGED <<spawned, w_pc>>
       ELSE setup_failed
    /\ UNCHANGED <<pack_input, pack_output, peer_id, channel_id, owner, disconnects, w_rest, r_vars>>

\* response_fut.await?.into_body(), then spawn_write_task
C_H2ClientResponse(ok) ==
    /\ conn.pc = "h2_response"
    /\ IF ok THEN setup_spawns_writer ELSE setup_failed
    /\ UNCHANGED <<pack_input, pack_output, peer_id, channel_id, owner, disconnects, w_rest, r_vars>>

\* create_connected_state_for_h2_server: the h2 handshake
C_H2ServerHandshake(ok) ==
    /\ conn.pc = "start"
    /\ conn.use_h2
    /\ conn.role = "Server"
    /\ IF ok
       THEN /\ conn' = [conn EXCEPT !.pc = "h2_accept", !.path = "h2_server"]
            /\ UNCHANGED <<spawned, w_pc>>
       ELSE /\ conn' = [conn EXCEPT !.pc = "done", !.path = "h2_server",
                                     !.result = "Err"]
            /\ UNCHANGED <<spawned, w_pc>>
    /\ UNCHANGED <<pack_input, pack_output, peer_id, channel_id, owner, disconnects, w_rest, r_vars>>

\* h2.accept().await gives no request ("none"), an error ("err") or the
\* first request ("ok"); then respond.send_response(response, false)?, the
\* task accepting further streams is spawned, then spawn_write_task
C_H2ServerAccept(request, sent) ==
    /\ conn.pc = "h2_accept"
    /\ IF request = "ok" /\ sent
       THEN /\ spawn_write_task(peer_id, channel_id, writer_of(backend))
            /\ conn' = [conn EXCEPT !.pc = "spawn_read", !.h2_conn = TRUE]
       ELSE setup_failed
    /\ UNCHANGED <<pack_input, pack_output, peer_id, channel_id, owner, disconnects, w_rest, r_vars>>

\* the record returned with h2_conn: None and the role passed through on
\* every path
connected_record_AsRaw ==
    Connected(conn.peer_addr, None, conn.role)

\* the Connected record the path taken returns: the raw backend's with
\* h2_conn: None and the role it was called with, the h2 client's and the h2
\* server's with Some(h2_conn) and their own role
connected_record ==
    CASE conn.path = "raw" -> Connected(conn.peer_addr, None, conn.role)
      [] conn.path = "h2_client" -> Connected(conn.peer_addr, Some("h2_conn"), "Client")
      [] conn.path = "h2_server" -> Connected(conn.peer_addr, Some("h2_conn"), "Server")

\* C_SpawnRead that returns Ok(Connected {..}) without the spawn_read_task call
C_SpawnRead_NoReadTask ==
    /\ conn.pc = "spawn_read"
    /\ conn' = [conn EXCEPT !.pc = "done", !.result = "Ok",
                            !.connected = Some(connected_record)]
    /\ UNCHANGED <<pack_input, pack_output, peer_id, channel_id, owner, disconnects, spawned, w_vars, r_vars>>

\* spawn_read_task on the reader half, then Ok(Connected {..})
C_SpawnRead ==
    /\ conn.pc = "spawn_read"
    /\ spawn_read_task(peer_id, channel_id, reader_of(backend))
    /\ conn' = [conn EXCEPT !.pc = "done", !.result = "Ok",
                            !.connected = Some(connected_record)]
    /\ UNCHANGED <<pack_input, pack_output, peer_id, channel_id, owner, disconnects, w_vars, r_rest>>

AcceptResults == {"none", "err", "ok"}

create_connected_state ==
    \/ C_RawSpawnWrite
    \/ \E ok \in BOOLEAN : C_H2ClientHandshake(ok)
    \/ \E ok, sent \in BOOLEAN : C_H2ClientReady(ok, sent)
    \/ \E ok \in BOOLEAN : C_H2ClientResponse(ok)
    \/ \E ok \in BOOLEAN : C_H2ServerHandshake(ok)
    \/ \E request \in AcceptResults, sent \in BOOLEAN : C_H2ServerAccept(request, sent)
    \/ C_SpawnRead

(***************************************************************************)
(* Initial states.                                                         *)
(***************************************************************************)
InitCfg ==
    /\ \E flow \in Flows : peer_id = flow[1] /\ channel_id = flow[2]
    /\ owner = TRUE
    /\ disconnects = <<>>
    /\ pack_input = [payload_len |-> None, heartbeat |-> FALSE]
    /\ pack_output = [status |-> "none", bytes |-> <<>>]

\* spawn_write_task has just spawned the task; `queues` are the runs of the
\* application
InitWrite(queues) ==
    /\ w_pc = "loop"
    /\ w_arc = FALSE
    /\ w_iter = 0
    /\ w_upgrades = 0
    /\ send_queue \in queues
    /\ dequeued = <<>>
    /\ bytes_to_send = <<>>
    /\ dequeue_calls = 0
    /\ dequeue_deadline = 0
    /\ start_time = 0
    /\ writes = <<>>
    /\ flush_calls = 0
    /\ wire = <<>>
    /\ heart_beats_sent = 0
    /\ write_bytes_total = 0
    /\ send_message_duration = 0

\* spawn_read_task has just spawned the task; the peer sends at most
\* `budget` times
InitRead(budget) ==
    /\ r_pc = "loop"
    /\ r_arc = FALSE
    /\ r_header = unpack_header(<<0, 0, 0, 0, 0, 0, 0, 0>>)
    /\ payload_buffer = <<>>
    /\ remaining = 0
    /\ cur_offset = 0
    /\ r_err = "none"
    /\ read_calls = 0
    /\ reader_event = "none"
    /\ chunk_reads = <<>>
    /\ r_upgrades = 0
    /\ received = <<>>
    /\ inbound = <<>>
    /\ eof = FALSE
    /\ peer_budget = budget
    /\ peer_sent = <<>>
    /\ peer_clean = TRUE
    /\ events = <<>>
    /\ heart_beats_received = 0
    /\ read_bytes_total = 0
    /\ message_read_errors_total = [TimeOut |-> 0, Failed |-> 0]
    /\ now = 0
    /\ read_message_start = 0
    /\ read_deadline = 0

\* no write task
NoWrite ==
    /\ w_pc = "none"
    /\ w_arc = FALSE
    /\ w_iter = 0
    /\ w_upgrades = 0
    /\ send_queue = <<>>
    /\ dequeued = <<>>
    /\ bytes_to_send = <<>>
    /\ dequeue_calls = 0
    /\ dequeue_deadline = 0
    /\ start_time = 0
    /\ writes = <<>>
    /\ flush_calls = 0
    /\ wire = <<>>
    /\ heart_beats_sent = 0
    /\ write_bytes_total = 0
    /\ send_message_duration = 0

\* no read task
NoRead ==
    /\ r_pc = "none"
    /\ r_arc = FALSE
    /\ r_header = unpack_header(<<0, 0, 0, 0, 0, 0, 0, 0>>)
    /\ payload_buffer = <<>>
    /\ remaining = 0
    /\ cur_offset = 0
    /\ r_err = "none"
    /\ read_calls = 0
    /\ reader_event = "none"
    /\ chunk_reads = <<>>
    /\ r_upgrades = 0
    /\ received = <<>>
    /\ inbound = <<>>
    /\ eof = FALSE
    /\ peer_budget = 0
    /\ peer_sent = <<>>
    /\ peer_clean = TRUE
    /\ events = <<>>
    /\ heart_beats_received = 0
    /\ read_bytes_total = 0
    /\ message_read_errors_total = [TimeOut |-> 0, Failed |-> 0]
    /\ now = 0
    /\ read_message_start = 0
    /\ read_deadline = 0

(***************************************************************************)
(* The write task alone (spawn_write_task).                                *)
(***************************************************************************)
InitW ==
    /\ InitCfg /\ InitWrite(SeqsUpTo(Payloads, MaxQueue)) /\ NoRead
    /\ conn = Direct
    /\ spawned = <<spawn_args("write", peer_id, channel_id, writer_of("tls_stream"))>>
NextW == WriteTask(MaxWriteIters) \/ OwnerDrop
SpecW == InitW /\ [][NextW]_vars

(***************************************************************************)
(* The read task alone (spawn_read_task), fed by the peer.                 *)
(***************************************************************************)
InitR ==
    /\ InitCfg /\ NoWrite /\ InitRead(MaxPeerSends)
    /\ conn = Direct
    /\ spawned = <<spawn_args("read", peer_id, channel_id, reader_of("tls_stream"))>>
NextR == ReadTask \/ Peer \/ OwnerDrop
SpecR == InitR /\ [][NextR]_vars

(***************************************************************************)
(* The read task alone on payloads longer than a read chunk.               *)
(***************************************************************************)
\* payload lengths around the multiples of the chunk size
ChunkLens == {(MaxChunks - 1) * SOCKET_READ_CHUNK_SIZE + 1, MaxChunks * SOCKET_READ_CHUNK_SIZE}

\* a payload of n bytes whose bytes differ from chunk to chunk at equal
\* positions
ChunkPayload(n) == [i \in 1..n |-> i % 251]

ChunkPeer ==
    \/ \E n \in ChunkLens : PeerSendMessage(ChunkPayload(n))
    \/ PeerSendHeartbeat
    \/ PeerClose

InitChunk ==
    /\ InitCfg /\ NoWrite /\ InitRead(ChunkSends)
    /\ conn = Direct
    /\ spawned = <<spawn_args("read", peer_id, channel_id, reader_of("tls_stream"))>>
NextChunk == ReadTask \/ ChunkPeer \/ OwnerDrop
SpecChunk == InitChunk /\ [][NextChunk]_vars

(***************************************************************************)
(* The read task alone with the clock running: one frame of MaxChunks      *)
(* chunks arrives piece by piece, a piece per read of read_one_message.    *)
(***************************************************************************)
TimedPayload == ChunkPayload((MaxChunks - 1) * SOCKET_READ_CHUNK_SIZE + 1)
TimedFrame == aggregate(<<TimedPayload>>)

\* the run ends when the clock shows Horizon: time for every read of the
\* frame to take the whole timeout, and for the event handler to take longer
Horizon == (MaxChunks + 2) * heartbeat_timeout + 1

\* the peer's writer gets the next piece of the frame onto the stream: the
\* header, then the payload a read chunk at a time
PeerSendPiece ==
    /\ Len(received) < Len(TimedFrame)
    /\ LET end == IF Len(received) < TRANSPORT_HEADER_SIZE
                  THEN TRANSPORT_HEADER_SIZE
                  ELSE Min(Len(TimedFrame), Len(received) + SOCKET_READ_CHUNK_SIZE)
       IN  /\ peer_send(SubSeq(TimedFrame, Len(received) + 1, end))
           /\ peer_sent' = IF end = Len(TimedFrame)
                           THEN Append(peer_sent, TimedPayload)
                           ELSE peer_sent
    /\ UNCHANGED peer_clean

TimedPeer ==
    \/ PeerSendPiece
    \/ PeerClose

\* one tick passes while the read task is suspended in a read or in the
\* event handler.  A pending read does not outlast its deadline: at the
\* deadline the timeout future is polled, and ends with what the reader has
Tick ==
    /\ now < Horizon
    /\ \/ r_pc \in {"read_header", "read_chunk"} /\ now < read_deadline
       \/ r_pc = "event_handler"
    /\ now' = now + 1
    /\ UNCHANGED <<cfg_vars, w_vars, disconnects, r_pc, r_arc, r_upgrades, r_header,
                   payload_buffer, remaining, cur_offset, r_err, read_calls,
                   reader_event, chunk_reads, inbound, eof, received, peer_budget,
                   peer_sent, peer_clean, events, heart_beats_received,
                   read_bytes_total, message_read_errors_total,
                   read_message_start, read_deadline>>

InitT ==
    /\ InitCfg /\ NoWrite /\ InitRead(MaxChunks + 1)
    /\ conn = Direct
    /\ spawned = <<spawn_args("read", peer_id, channel_id, reader_of("tls_stream"))>>
NextT == ReadTask \/ TimedPeer \/ Tick \/ OwnerDrop
SpecT == InitT /\ [][NextT]_vars

(***************************************************************************)
(* One connection: create_connected_state spawns the write task and the    *)
(* read task with the same peer_id, channel_id and weak_self.              *)
(***************************************************************************)
\* the payloads of such a run, and a peer that runs the same write task
JointPayloads == {<<1>>}
JointPeer ==
    \/ \E payload \in JointPayloads : PeerSendMessage(payload)
    \/ PeerSendHeartbeat
    \/ PeerClose

Init ==
    /\ InitCfg /\ InitWrite(SeqsUpTo(JointPayloads, JointQueue)) /\ InitRead(JointPeerSends)
    /\ conn = ConnectedRaw
    /\ spawned = <<spawn_args("write", peer_id, channel_id, writer_of("tls_stream")),
                   spawn_args("read", peer_id, channel_id, reader_of("tls_stream"))>>
Next == WriteTask(JointWriteIters) \/ ReadTask \/ JointPeer \/ OwnerDrop
Spec == Init /\ [][Next]_vars

(***************************************************************************)
(* The read task alone with an event handler that may return an error.     *)
(***************************************************************************)
InitH ==
    /\ InitCfg /\ NoWrite /\ InitRead(MaxPeerSends)
    /\ conn = Direct
    /\ spawned = <<spawn_args("read", peer_id, channel_id, reader_of("tls_stream"))>>
NextH == ReadTaskFallible \/ JointPeer \/ OwnerDrop
SpecH == InitH /\ [][NextH]_vars

(***************************************************************************)
(* pack_header on its own, over every payload option and heartbeat flag.   *)
(***************************************************************************)
\* payload lengths: the short ones, those around the byte boundaries of the
\* length field, and those around the byte budget of a dequeue
PackLens ==
    (0..MaxPackLen) \cup {255, 256, 65535, 65536, DEQUEUE_BYTES, DEQUEUE_BYTES + 1}

PackInputs ==
    [payload_len : {None} \cup {Some(n) : n \in PackLens},
     heartbeat : BOOLEAN]

\* the payload argument of the call
pack_payload ==
    IF pack_input.payload_len = None THEN None
    ELSE Some(ChunkPayload(pack_input.payload_len[1]))

\* pack_header(payload, heartbeat) is called and returns `result`, unless
\* assert_eq!(result.len(), TRANSPORT_HEADER_SIZE) panics
PackHeader ==
    /\ pack_output.status = "none"
    /\ LET result == pack_header(pack_payload, pack_input.heartbeat)
       IN  pack_output' = IF Len(result) = TRANSPORT_HEADER_SIZE
                          THEN [status |-> "returned", bytes |-> result]
                          ELSE [status |-> "panicked", bytes |-> <<>>]
    /\ UNCHANGED <<pack_input, peer_id, channel_id, owner, conn, spawned,
                   w_vars, r_vars, disconnects>>

InitPack ==
    /\ \E flow \in Flows : peer_id = flow[1] /\ channel_id = flow[2]
    /\ owner = TRUE
    /\ disconnects = <<>>
    /\ pack_input \in PackInputs
    /\ pack_output = [status |-> "none", bytes |-> <<>>]
    /\ NoWrite /\ NoRead
    /\ conn = Direct
    /\ spawned = <<>>
NextPack == PackHeader \/ OwnerDrop
SpecPack == InitPack /\ [][NextPack]_vars

(***************************************************************************)
(* One connection from the call of create_connected_state on: no task runs *)
(* before it is spawned.                                                   *)
(***************************************************************************)
Roles == {"Client", "Server"}

InitConn ==
    /\ InitCfg
    /\ \E use_h2 \in BOOLEAN, role \in Roles :
           conn = Connecting(use_h2, role, PeerAddr[peer_id])
    /\ spawned = <<>>
    /\ w_pc = "none"
    /\ w_arc = FALSE
    /\ w_iter = 0
    /\ w_upgrades = 0
    /\ send_queue \in SeqsUpTo(JointPayloads, JointQueue)
    /\ dequeued = <<>>
    /\ bytes_to_send = <<>>
    /\ dequeue_calls = 0
    /\ dequeue_deadline = 0
    /\ start_time = 0
    /\ writes = <<>>
    /\ flush_calls = 0
    /\ wire = <<>>
    /\ heart_beats_sent = 0
    /\ write_bytes_total = 0
    /\ send_message_duration = 0
    /\ r_pc = "none"
    /\ r_arc = FALSE
    /\ r_header = unpack_header(<<0, 0, 0, 0, 0, 0, 0, 0>>)
    /\ payload_buffer = <<>>
    /\ remaining = 0
    /\ cur_offset = 0
    /\ r_err = "none"
    /\ read_calls = 0
    /\ reader_event = "none"
    /\ chunk_reads = <<>>
    /\ r_upgrades = 0
    /\ received = <<>>
    /\ inbound = <<>>
    /\ eof = FALSE
    /\ peer_budget = JointPeerSends
    /\ peer_sent = <<>>
    /\ peer_clean = TRUE
    /\ events = <<>>
    /\ heart_beats_received = 0
    /\ read_bytes_total = 0
    /\ message_read_errors_total = [TimeOut |-> 0, Failed |-> 0]
    /\ now = 0
    /\ read_message_start = 0
    /\ read_deadline = 0
NextConn ==
    create_connected_state \/ WriteTask(JointWriteIters) \/ ReadTask \/ JointPeer \/ OwnerDrop
SpecConn == InitConn /\ [][NextConn]_vars

(***************************************************************************)
(* Properties.                                                             *)
(***************************************************************************)
\* the on_disconnect calls made by `task`
DisconnectsBy(task) == SelectSeq(disconnects, LAMBDA d : d.task = task)

\* the call on_disconnect(peer_id, channel_id) with the ids of the spawn
OwnDisconnect(task) == [task |-> task, peer_id |-> peer_id, channel_id |-> channel_id]

WriteErrors == {"write_err", "flush_err"}

\* number of write_all calls that returned Ok, i.e. of flush calls due
Accepted == Cardinality({i \in 1..Len(writes) : writes[i].result \notin {"pending", "write_err"}})

\* C1: when write_all or flush fails in iteration N of the write task,
\* on_disconnect is called exactly once, with the peer_id and channel_id of
\* the spawn, and the task makes no dequeue, write_all or flush call after
\* the failed one: the failed write is the N-th and last write_all call, the
\* dequeue of iteration N is the last dequeue call, and no flush follows.
\* Without a failure the write task calls on_disconnect never.
C1_WriteFailureDisconnect ==
    /\ \A i \in 1..Len(writes) :
          writes[i].result \in WriteErrors =>
             /\ i = Len(writes)
             /\ i = w_iter
             /\ dequeue_calls = i
             /\ flush_calls = Accepted
             /\ w_pc \in {"on_disconnect", "done"}
             /\ DisconnectsBy("write") = <<OwnDisconnect("write")>>
    /\ (\A i \in 1..Len(writes) : writes[i].result \notin WriteErrors)
          => DisconnectsBy("write") = <<>>

\* a flush failed in the second iteration and the task has returned
C1_Witness ==
    /\ w_pc = "done"
    /\ Len(writes) = 2
    /\ writes[1].result = "ok"
    /\ writes[2].result = "flush_err"

\* the 8 header bytes of the wire format: version 0, flags (bit 0 =
\* heartbeat), reserved 0, payload length little-endian
WireHeader(len, heartbeat) ==
    <<0, IF heartbeat THEN 1 ELSE 0, 0, 0,
      len % 256, (len \div 256) % 256, (len \div 65536) % 256, (len \div 16777216) % 256>>

\* encode(payload): the header immediately followed by the payload
encode(payload) == WireHeader(Len(payload), FALSE) \o payload

RECURSIVE encode_all(_)
\* encode(A) ++ encode(B) ++ ...
encode_all(payloads) ==
    IF payloads = <<>> THEN <<>>
    ELSE encode(Head(payloads)) \o encode_all(Tail(payloads))

\* number of dequeue calls that have returned
Drains == dequeue_calls - (IF w_pc = "dequeue" THEN 1 ELSE 0)

\* C5: for every dequeue call that returned a non-empty sequence of payloads
\* the write task issues exactly one write_all call, and its buffer is
\* encode(A) ++ encode(B) ++ ... in dequeue order and nothing else.
C5_AggregationPreservesOrder ==
    /\ Len(writes) = Drains
    /\ \A i \in 1..Len(writes) :
          writes[i].drain # <<>> => writes[i].bytes = encode_all(writes[i].drain)
    /\ w_pc \in {"write_all", "flush"} =>
          /\ dequeued = writes[Len(writes)].drain
          /\ bytes_to_send = writes[Len(writes)].bytes

\* one drain of two different payloads, the first not empty, was written
C5_Witness ==
    \E i \in 1..Len(writes) :
        /\ Len(writes[i].drain) = 2
        /\ writes[i].drain[1] # writes[i].drain[2]
        /\ writes[i].drain[1] # <<>>
        /\ writes[i].result = "ok"

RECURSIVE parse_frames(_)
\* the frames a reader finds in `bytes`: 8 header bytes, then, unless the
\* heartbeat bit is set, payload_length payload bytes; a last frame that is
\* cut short is marked not ok
parse_frames(bytes) ==
    IF bytes = <<>> THEN <<>>
    ELSE IF Len(bytes) < 8
    THEN <<[heartbeat |-> FALSE, payload |-> <<>>, ok |-> FALSE]>>
    ELSE LET len == bytes[5] + 256 * bytes[6] + 65536 * bytes[7] + 16777216 * bytes[8]
             rest == SubSeq(bytes, 9, Len(bytes))
         IN  IF bytes[2] % 2 = 1
             THEN <<[heartbeat |-> TRUE, payload |-> <<>>, ok |-> TRUE]>>
                  \o parse_frames(rest)
             ELSE IF Len(rest) < len
             THEN <<[heartbeat |-> FALSE, payload |-> <<>>, ok |-> FALSE]>>
             ELSE <<[heartbeat |-> FALSE, payload |-> SubSeq(rest, 1, len), ok |-> TRUE]>>
                  \o parse_frames(SubSeq(rest, len + 1, Len(rest)))

RECURSIVE frames_of(_)
\* the frames of the drains of the write_all calls that returned Ok, in call
\* order: a heartbeat for an empty drain, else one data frame per payload
frames_of(calls) ==
    IF calls = <<>> THEN <<>>
    ELSE LET call == Head(calls)
             mine == IF call.result \in {"pending", "write_err"} THEN <<>>
                     ELSE IF call.drain = <<>>
                     THEN <<[heartbeat |-> TRUE, payload |-> <<>>, ok |-> TRUE]>>
                     ELSE [k \in 1..Len(call.drain) |->
                              [heartbeat |-> FALSE, payload |-> call.drain[k], ok |-> TRUE]]
         IN  mine \o frames_of(Tail(calls))

\* C6: the bytes the writer accepted over the whole run are, frame by frame,
\* the data frames of the dequeued payloads in dequeue order across all
\* drains, with a heartbeat frame only between frames, where a drain was
\* empty: nothing dropped, duplicated, reordered or split.
C6_OutboundFifo == parse_frames(wire) = frames_of(writes)

\* data, then a heartbeat, then data again went out
C6_Witness ==
    /\ Len(writes) = 3
    /\ writes[1].drain # <<>>
    /\ writes[2].drain = <<>>
    /\ writes[3].drain # <<>> /\ writes[3].drain[1] # writes[1].drain[1]
    /\ writes[3].result = "ok"

\* C7: every dequeue call that returned no item is followed, in its
\* iteration, by exactly one write_all call whose buffer is one heartbeat
\* frame (8 bytes, header only), and heart_beats_sent counts exactly these
\* iterations.
C7_IdleQueueHeartbeat ==
    /\ Len(writes) = Drains
    /\ \A i \in 1..Len(writes) :
          writes[i].drain = <<>> =>
             /\ Len(writes[i].bytes) = 8
             /\ parse_frames(writes[i].bytes)
                   = <<[heartbeat |-> TRUE, payload |-> <<>>, ok |-> TRUE]>>
    /\ heart_beats_sent = Cardinality({i \in 1..Len(writes) : writes[i].drain = <<>>})

\* two idle iterations and one with data
C7_Witness ==
    /\ heart_beats_sent = 2
    /\ Len(writes) = 3
    /\ writes[2].drain # <<>>
    /\ writes[3].result = "ok"

\* C9: pack_header(None, true), the buffer of an idle iteration, is exactly
\* 8 bytes, bit 0 of its flags byte is set and its payload_length field is 0.
C9_HeartbeatFraming ==
    \A i \in 1..Len(writes) :
        writes[i].drain = <<>> =>
           /\ Len(writes[i].bytes) = 8
           /\ writes[i].bytes[2] % 2 = 1
           /\ SubSeq(writes[i].bytes, 5, 8) = <<0, 0, 0, 0>>

\* a heartbeat was written and flushed
C9_Witness ==
    \E i \in 1..Len(writes) : writes[i].drain = <<>> /\ writes[i].result = "ok"

\* a step in which the pending header read of the read task ends
HeaderReadEnds == r_pc = "read_header" /\ r_pc' # "read_header"

\* once the read task has called on_disconnect it only returns: it reads,
\* delivers and reports nothing more
ReadTaskOnlyReturns ==
    r_pc \in {"on_disconnect", "done"} =>
       /\ r_pc' \in (IF r_pc = "done" THEN {"done"} ELSE {"on_disconnect", "done"})
       /\ read_calls' = read_calls
       /\ events' = events
       /\ DisconnectsBy("read")' = DisconnectsBy("read")

\* C2: when the timeout of the header read fires (the 8 header bytes did not
\* arrive within the heartbeat wait interval), the read is classified
\* StreamReadError::TimeOut, the read task calls on_disconnect, for the first
\* and only time and with its own ids, hands nothing to the event handler
\* and then only returns.
C2_ReadTimeoutEscalation ==
    [][/\ (HeaderReadEnds /\ reader_event' = "elapsed") =>
             /\ Len(inbound) < 8
             /\ r_err' = "TimeOut"
             /\ message_read_errors_total' =
                    [message_read_errors_total EXCEPT !.TimeOut = @ + 1]
             /\ DisconnectsBy("read") = <<>>
             /\ disconnects' = Append(disconnects, OwnDisconnect("read"))
             /\ events' = events
             /\ r_pc' = "on_disconnect"
       /\ ReadTaskOnlyReturns]_vars

\* the header of the second frame timed out, after one delivered message,
\* and the task has returned
C2_Witness ==
    /\ r_pc = "done"
    /\ reader_event = "elapsed"
    /\ r_err = "TimeOut"
    /\ remaining = 0
    /\ Len(events) = 1

\* C8: while the peer has sent only frames made by pack_header, Some(P) and
\* heartbeat false, followed by P: the header unpack_header returns for such
\* a frame has payload_length = Len(P) and the heartbeat bit clear, and what
\* read_one_message returns, and the task hands to the event handler, is
\* exactly P, frame after frame.
C8_CodecRoundTrip ==
    peer_clean =>
       /\ Len(events) <= Len(peer_sent)
       /\ \A i \in 1..Len(events) : events[i].payload = peer_sent[i]
       /\ r_pc = "read_chunk" =>
             /\ Len(events) < Len(peer_sent)
             /\ r_header.payload_length = Len(peer_sent[Len(events) + 1])
             /\ r_header.flags % 2 = 0
       /\ r_pc = "event_handler" =>
             /\ r_header.payload_length = Len(events[Len(events)].payload)
             /\ r_header.flags % 2 = 0

\* a payload of the greatest length, a heartbeat and an empty payload were
\* received from the peer
C8_Witness ==
    /\ peer_clean
    /\ heart_beats_received = 1
    /\ Len(events) = 2
    /\ Len(events[1].payload) = MaxPayloadLen
    /\ events[2].payload = <<>>
    /\ r_pc = "event_handler"

\* C10: when the header just read has the heartbeat bit set, whatever its
\* payload_length, the read task took the 8 header bytes and no more, starts
\* no payload read, does not call the event handler, counts the heartbeat
\* and is back at the loop head; bytes leave the stream only through a read,
\* from its front, so the next read starts right after that header.
C10_HeartbeatOnReadPath ==
    [][/\ (HeaderReadEnds /\ reader_event' = "ready_ok" /\ inbound[2] % 2 = 1) =>
             /\ inbound' = SubSeq(inbound, 9, Len(inbound))
             /\ read_calls' = read_calls
             /\ events' = events
             /\ heart_beats_received' = heart_beats_received + 1
             /\ r_pc' = "loop"
       /\ (HeaderReadEnds /\ reader_event' = "ready_ok") =>
             /\ r_header'.flags = inbound[2]
             /\ inbound' = SubSeq(inbound, 9, Len(inbound))
       /\ r_pc \notin {"read_header", "read_chunk"} =>
             /\ Len(inbound') >= Len(inbound)
             /\ SubSeq(inbound', 1, Len(inbound)) = inbound]_vars

\* a heartbeat header that announces a payload was read, and the bytes after
\* it are still in the stream
C10_Witness ==
    /\ r_pc = "loop"
    /\ heart_beats_received = 1
    /\ r_header.flags % 2 = 1
    /\ r_header.payload_length > 0
    /\ inbound # <<>>

\* the write task saw write_all or flush fail; the read task saw a read fail
WriteFailed == \E i \in 1..Len(writes) : writes[i].result \in WriteErrors
ReadFailed == r_err # "none"

\* C3 as stated: however many of the two tasks of a connection see an error,
\* the failure of the connection is reported by one on_disconnect call.
C3_OncePerConnection == (WriteFailed \/ ReadFailed) => Len(disconnects) = 1

\* C3, amended: the failure is reported exactly once by each task that saw an
\* error, with the ids of the connection, and by no other task; so a
\* connection is reported once when one task saw an error and twice when
\* both did.
C3_OncePerFailedTask ==
    /\ DisconnectsBy("write") = (IF WriteFailed THEN <<OwnDisconnect("write")>> ELSE <<>>)
    /\ DisconnectsBy("read") = (IF ReadFailed THEN <<OwnDisconnect("read")>> ELSE <<>>)
    /\ Len(disconnects) = (IF WriteFailed THEN 1 ELSE 0) + (IF ReadFailed THEN 1 ELSE 0)

\* both tasks saw an error, both reported it and returned
C3_Witness ==
    /\ WriteFailed /\ ReadFailed
    /\ w_pc = "done" /\ r_pc = "done"
    /\ Len(disconnects) = 2

\* once the write task has called on_disconnect it only returns: no further
\* dequeue, write_all, flush or on_disconnect call
WriteTaskOnlyReturns ==
    w_pc \in {"on_disconnect", "done"} =>
       /\ w_pc' \in (IF w_pc = "done" THEN {"done"} ELSE {"on_disconnect", "done"})
       /\ dequeue_calls' = dequeue_calls
       /\ Len(writes') = Len(writes)
       /\ flush_calls' = flush_calls
       /\ DisconnectsBy("write")' = DisconnectsBy("write")

\* C4: each task calls on_disconnect at most once; the call is made in the
\* step in which the task sees its first read, write_all or flush error;
\* the failed operation is not called again and the task returns as soon as
\* the callback has completed.
C4_NoRetryAtMostOnce ==
    /\ [](Len(DisconnectsBy("write")) <= 1 /\ Len(DisconnectsBy("read")) <= 1)
    /\ [][/\ (~WriteFailed /\ WriteFailed') =>
                /\ DisconnectsBy("write") = <<>>
                /\ DisconnectsBy("write")' = <<OwnDisconnect("write")>>
                /\ w_pc' = "on_disconnect"
          /\ (~ReadFailed /\ ReadFailed') =>
                /\ DisconnectsBy("read") = <<>>
                /\ DisconnectsBy("read")' = <<OwnDisconnect("read")>>
                /\ r_pc' = "on_disconnect"
          /\ (DisconnectsBy("write")' # DisconnectsBy("write")) => (~WriteFailed /\ WriteFailed')
          /\ (DisconnectsBy("read")' # DisconnectsBy("read")) => (~ReadFailed /\ ReadFailed')
          /\ WriteTaskOnlyReturns
          /\ ReadTaskOnlyReturns]_vars

\* the read failed first, then write_all failed in the second iteration, and
\* both tasks have returned
C4_Witness ==
    /\ w_pc = "done" /\ r_pc = "done"
    /\ disconnects = <<OwnDisconnect("read"), OwnDisconnect("write")>>
    /\ Len(writes) = 2
    /\ writes[2].result = "write_err"
    /\ reader_event = "ready_err"

\* the bytes of `received` the read task has taken off the reader so far
consumed == Len(received) - Len(inbound)

\* C11: for a data frame whose payload_length L exceeds the chunk size,
\* read_one_message issues its chunk reads at the consecutive offsets 0,
\* chunk, 2 * chunk, ..., each of exactly the chunk size except the last,
\* which is of exactly the remainder; when the frame is returned
\* ceil(L / chunk) chunk reads were issued, and the payload handed on is the
\* L bytes that followed the frame's header on the wire.
C11_ChunkedReassembly ==
    (r_pc \in {"read_chunk", "event_handler"}
        /\ r_header.payload_length > SOCKET_READ_CHUNK_SIZE) =>
       LET L == r_header.payload_length
       IN  /\ \A i \in 1..Len(chunk_reads) :
                 /\ chunk_reads[i].offset = (i - 1) * SOCKET_READ_CHUNK_SIZE
                 /\ chunk_reads[i].size =
                        (IF L - chunk_reads[i].offset > SOCKET_READ_CHUNK_SIZE
                         THEN SOCKET_READ_CHUNK_SIZE
                         ELSE L - chunk_reads[i].offset)
                 /\ chunk_reads[i].size > 0
           /\ r_pc = "read_chunk" =>
                 /\ cur_offset = chunk_reads[Len(chunk_reads)].offset
                 /\ payload_buffer = SubSeq(received, consumed - cur_offset + 1, consumed)
           /\ r_pc = "event_handler" =>
                 /\ Len(chunk_reads) =
                        (L + SOCKET_READ_CHUNK_SIZE - 1) \div SOCKET_READ_CHUNK_SIZE
                 /\ Len(events[Len(events)].payload) = L
                 /\ events[Len(events)].payload = SubSeq(received, consumed - L + 1, consumed)
                 /\ SubSeq(received, consumed - L - 7, consumed - L) = WireHeader(L, FALSE)

\* a payload one byte longer than a multiple of the chunk size was returned:
\* its last chunk read was for one byte
C11_Witness ==
    /\ r_pc = "event_handler"
    /\ r_header.payload_length = (MaxChunks - 1) * SOCKET_READ_CHUNK_SIZE + 1
    /\ Len(chunk_reads) = MaxChunks
    /\ chunk_reads[MaxChunks] = [offset |-> (MaxChunks - 1) * SOCKET_READ_CHUNK_SIZE, size |-> 1]

\* the payloads of the complete data frames among `frames`, in order
data_payloads(frames) ==
    LET data == SelectSeq(frames, LAMBDA f : f.ok /\ ~f.heartbeat)
    IN  [i \in 1..Len(data) |-> data[i].payload]

\* the payloads the event handler was called with, in call order
delivered == [i \in 1..Len(events) |-> events[i].payload]

\* C12: the payloads handed to the event handler are, in call order, the
\* first data frames of the byte stream received, in the order received; a
\* handler call is made for one frame at a time, and while it has not
\* completed the read task issues no read, takes no byte off the reader and
\* makes no other handler call.
C12_InboundOrderBackPressure ==
    /\ [](LET data == data_payloads(parse_frames(received))
          IN  /\ Len(delivered) <= Len(data)
              /\ delivered = SubSeq(data, 1, Len(delivered)))
    /\ [][/\ events' # events =>
                /\ r_pc # "event_handler"
                /\ r_pc' = "event_handler"
                /\ Len(events') = Len(events) + 1
                /\ SubSeq(events', 1, Len(events)) = events
          /\ r_pc = "event_handler" =>
                /\ r_pc' \in {"event_handler", "loop"}
                /\ read_calls' = read_calls
                /\ consumed' = consumed
                /\ events' = events]_vars

\* two data frames of different payloads, with a heartbeat between them on
\* the wire, were handed on and the second handler call has completed
C12_Witness ==
    /\ r_pc = "loop"
    /\ heart_beats_received = 1
    /\ Len(events) = 2
    /\ events[1].payload # events[2].payload
    /\ parse_frames(received)[2].heartbeat

\* the frames whose bytes the read task has taken off the reader completely
frames_read ==
    SelectSeq(parse_frames(SubSeq(received, 1, consumed)), LAMBDA f : f.ok)

\* C13: the event handler calls are exactly one call per data frame the read
\* task has read completely, in order, each with the peer_id of the spawn
\* and the payload of its frame; a step that reads a heartbeat frame, and a
\* step in which a read ends in an error, make no call, so heartbeat frames
\* and frames cut short by an error have none.
C13_HandlerOncePerDataFrame ==
    /\ [](/\ events = [i \in 1..Len(data_payloads(frames_read)) |->
                          [peer_id |-> peer_id, payload |-> data_payloads(frames_read)[i]]]
          /\ heart_beats_received
                = Len(SelectSeq(frames_read, LAMBDA f : f.heartbeat)))
    /\ [][/\ heart_beats_received' # heart_beats_received => events' = events
          /\ r_err' # r_err => events' = events
          /\ r_pc \in {"on_disconnect", "done"} => events' = events]_vars

\* one data frame was handed on, one heartbeat was counted, and the read of
\* the payload of a third frame timed out: one handler call in all
C13_Witness ==
    /\ r_pc = "done"
    /\ r_err = "TimeOut"
    /\ remaining > 0
    /\ heart_beats_received = 1
    /\ Len(events) = 1

\* iterations of the read loop entered so far: one per frame read, one for
\* a read that failed, one for a read in progress
r_iter ==
    heart_beats_received + Len(events)
    + (IF ReadFailed THEN 1 ELSE 0)
    + (IF r_pc \in {"read_header", "read_chunk"} THEN 1 ELSE 0)

\* C14: each task calls weak_self.upgrade() only at its loop head and once
\* per iteration: once for every iteration entered, and once more when the
\* call fails.  When it fails the task is done in that step, with no call of
\* on_disconnect, of the queue, the writer, the reader or the event handler,
\* then or later; when it succeeds the iteration is entered, and an
\* iteration in progress is not left because the manager has gone.
C14_ManagerGone ==
    /\ [](/\ w_upgrades = w_iter + (IF w_pc = "done" /\ ~WriteFailed THEN 1 ELSE 0)
          /\ r_upgrades = r_iter + (IF r_pc = "done" /\ ~ReadFailed THEN 1 ELSE 0))
    /\ [][/\ w_upgrades' # w_upgrades => (w_pc = "loop" /\ w_upgrades' = w_upgrades + 1)
          /\ r_upgrades' # r_upgrades => (r_pc = "loop" /\ r_upgrades' = r_upgrades + 1)
          /\ dequeue_calls' # dequeue_calls => (w_upgrades' = w_upgrades + 1 /\ upgrade)
          /\ (r_pc = "loop" /\ read_calls' # read_calls) =>
                (r_upgrades' = r_upgrades + 1 /\ upgrade)
          /\ (w_pc = "loop" /\ w_pc' # "loop") =>
                IF upgrade THEN w_pc' = "dequeue"
                ELSE /\ w_pc' = "done"
                     /\ UNCHANGED <<disconnects, dequeue_calls, writes, flush_calls, wire>>
          /\ (r_pc = "loop" /\ r_pc' # "loop") =>
                IF upgrade THEN r_pc' = "read_header"
                ELSE /\ r_pc' = "done"
                     /\ UNCHANGED <<disconnects, read_calls, consumed, events>>
          /\ w_pc \in {"dequeue", "write_all", "flush"} => w_pc' # "done"
          /\ r_pc \in {"read_header", "read_chunk", "event_handler"} => r_pc' # "done"
          /\ w_pc = "done" =>
                UNCHANGED <<w_pc, w_upgrades, dequeue_calls, writes, flush_calls, wire>>
          /\ r_pc = "done" =>
                UNCHANGED <<r_pc, r_upgrades, read_calls, consumed, events>>
          /\ (w_pc = "done" /\ ~WriteFailed) => DisconnectsBy("write")' = <<>>
          /\ (r_pc = "done" /\ ~ReadFailed) => DisconnectsBy("read")' = <<>>]_vars

\* the owner dropped the manager; each task completed one iteration, a write
\* and a delivery, found at its second upgrade that the manager was gone and
\* exited without a disconnect callback
C14_Witness ==
    /\ ~owner
    /\ w_pc = "done" /\ r_pc = "done"
    /\ disconnects = <<>>
    /\ w_upgrades = 2 /\ r_upgrades = 2
    /\ Len(writes) = 1 /\ Len(events) = 1

\* the write_all calls whose write or flush has not completed yet
in_flight == {i \in 1..Len(writes) : writes[i].result \in {"pending", "accepted"}}

\* C15: at most one write_all call, the last one made, has its write or its
\* flush still in progress; a flush is called only after its write_all
\* returned Ok; and a dequeue is started, and a write_all call made, only
\* when the write and the flush of every earlier call have completed
\* successfully.
C15_SequentialWrites ==
    /\ [](/\ Cardinality(in_flight) <= 1
          /\ in_flight \subseteq {Len(writes)}
          /\ in_flight # {} <=> w_pc \in {"write_all", "flush"}
          /\ w_pc = "write_all" => writes[Len(writes)].result = "pending"
          /\ w_pc = "flush" => writes[Len(writes)].result = "accepted"
          /\ flush_calls = Accepted
          /\ w_pc \in {"loop", "dequeue"} =>
                \A i \in 1..Len(writes) : writes[i].result = "ok")
    /\ [][/\ dequeue_calls' # dequeue_calls =>
                (in_flight = {} /\ \A i \in 1..Len(writes) : writes[i].result = "ok")
          /\ Len(writes') # Len(writes) =>
                /\ in_flight = {}
                /\ \A i \in 1..Len(writes) : writes'[i] = writes[i] /\ writes[i].result = "ok"
                /\ Len(writes') = Len(writes) + 1]_vars

\* two iterations wrote and flushed, the third has its write in progress
C15_Witness ==
    /\ Len(writes) = 3
    /\ writes[1].result = "ok" /\ writes[2].result = "ok"
    /\ writes[2].drain # <<>>
    /\ w_pc = "write_all"

\* the spawn calls made for `task`
SpawnsOf(task) == SelectSeq(spawned, LAMBDA c : c.task = task)

\* C16: when create_connected_state has returned Ok, on the raw backend, as
\* h2 client or as h2 server, it has called spawn_write_task exactly once and
\* spawn_read_task exactly once, both with its own peer_id and channel_id,
\* the write task on the writer half and the read task on the reader half
\* of one and the same backend stream, and both tasks exist.
C16_EntryToConnected ==
    conn.result = "Ok" =>
       /\ Len(spawned) = 2
       /\ Len(SpawnsOf("write")) = 1
       /\ Len(SpawnsOf("read")) = 1
       /\ LET write_task == SpawnsOf("write")[1]
              read_task == SpawnsOf("read")[1]
          IN  /\ write_task.peer_id = peer_id /\ write_task.channel_id = channel_id
              /\ read_task.peer_id = peer_id /\ read_task.channel_id = channel_id
              /\ write_task.io.half = "writer"
              /\ read_task.io.half = "reader"
              /\ write_task.io.stream = read_task.io.stream
              /\ write_task.io.stream = (IF conn.use_h2 THEN "h2_stream" ELSE "tls_stream")
       /\ w_pc # "none"
       /\ r_pc # "none"

\* the h2 client's setup has returned Ok and both of its tasks have run
C16_Witness ==
    /\ conn.pc = "done" /\ conn.result = "Ok"
    /\ conn.use_h2 /\ conn.role = "Client" /\ conn.h2_conn
    /\ Len(writes) = 1
    /\ Len(events) = 1

\* the state of the read task itself, without its reader's far end
r_task == <<r_pc, r_arc, r_upgrades, r_header, payload_buffer, remaining, cur_offset,
            r_err, read_calls, reader_event, chunk_reads, events,
            heart_beats_received, read_bytes_total, message_read_errors_total, read_message_start, read_deadline>>

\* the task may take a step: it is not done, and not held at the loop head
\* by the bound on the iterations explored
WriteTaskRuns == w_pc # "done" /\ (w_pc = "loop" => (w_iter < JointWriteIters \/ ~upgrade))
ReadTaskRuns == r_pc # "done"

\* C17: the step in which one task calls on_disconnect, and the step in
\* which it terminates, change nothing of the other task; a task is done
\* only by its own steps: after its own on_disconnect call or when its own
\* upgrade fails at the loop head; and while the other task has reported and
\* terminated, a task that is not done can still take its next step.
C17_SiblingNotCancelled ==
    /\ [][/\ (DisconnectsBy("read")' # DisconnectsBy("read") \/ (r_pc # "done" /\ r_pc' = "done"))
                => w_vars' = w_vars
          /\ (DisconnectsBy("write")' # DisconnectsBy("write") \/ (w_pc # "done" /\ w_pc' = "done"))
                => r_task' = r_task
          /\ (w_pc # "done" /\ w_pc' = "done") =>
                (w_pc = "on_disconnect" \/ (w_pc = "loop" /\ ~upgrade))
          /\ (r_pc # "done" /\ r_pc' = "done") =>
                (r_pc = "on_disconnect" \/ (r_pc = "loop" /\ ~upgrade))]_vars
    /\ []((r_pc \in {"on_disconnect", "done"} /\ WriteTaskRuns)
              => ENABLED WriteTask(JointWriteIters))
    /\ []((w_pc \in {"on_disconnect", "done"} /\ ReadTaskRuns) => ENABLED ReadTask)

\* the first read failed and the read task has returned; the write task
\* has written and flushed twice and is at its loop head
C17_Witness ==
    /\ r_pc = "done"
    /\ r_upgrades = 1
    /\ disconnects = <<OwnDisconnect("read")>>
    /\ w_pc = "loop"
    /\ Len(writes) = 2
    /\ writes[2].result = "ok"

\* the lifecycle of the connection as this code moves it: 0 Connecting (the
\* setup runs or has failed), 1 Connected (the setup returned Ok), 2
\* Disconnected (a task has called on_disconnect)
phase ==
    IF disconnects # <<>> THEN 2
    ELSE IF conn.result = "Ok" THEN 1
    ELSE 0

\* C18: the lifecycle never moves backwards: once on_disconnect was called
\* the connection stays Disconnected, and a Connected one is never
\* Connecting again.  A setup that has returned is not entered again and
\* spawns nothing more; a spawned task is never unspawned or spawned again;
\* and a task that is done stays done: it makes no queue, writer, reader,
\* handler or on_disconnect call any more.
C18_LifecycleOneWay ==
    [][/\ phase' >= phase
       /\ conn.pc = "done" => (conn' = conn /\ spawned' = spawned)
       /\ conn.pc # "start" => conn'.pc # "start"
       /\ Len(spawned') >= Len(spawned) /\ SubSeq(spawned', 1, Len(spawned)) = spawned
       /\ w_pc # "none" => (w_pc' # "none" /\ SpawnsOf("write")' = SpawnsOf("write"))
       /\ r_pc # "none" => (r_pc' # "none" /\ SpawnsOf("read")' = SpawnsOf("read"))
       /\ w_pc = "done" => (w_vars' = w_vars /\ DisconnectsBy("write")' = DisconnectsBy("write"))
       /\ r_pc = "done" =>
             (r_task' = r_task /\ consumed' = consumed
                /\ DisconnectsBy("read")' = DisconnectsBy("read"))]_vars

\* the h2 server's setup returned Ok, then both tasks failed, reported and
\* returned
C18_Witness ==
    /\ conn.result = "Ok" /\ conn.use_h2 /\ conn.role = "Server"
    /\ phase = 2
    /\ w_pc = "done" /\ r_pc = "done"
    /\ Len(disconnects) = 2
    /\ Len(writes) = 2

RECURSIVE walk(_)
\* `bytes` read as the wire format prescribes: 8 header bytes, then exactly
\* payload_length payload bytes, whatever the flags say; a frame that is cut
\* short is marked not ok and ends the walk
walk(bytes) ==
    IF bytes = <<>> THEN <<>>
    ELSE IF Len(bytes) < 8
    THEN <<[heartbeat |-> FALSE, payload_length |-> 0, ok |-> FALSE]>>
    ELSE LET n == bytes[5] + 256 * bytes[6] + 65536 * bytes[7] + 16777216 * bytes[8]
             heartbeat == bytes[2] % 2 = 1
             rest == SubSeq(bytes, 9, Len(bytes))
         IN  IF Len(rest) < n
             THEN <<[heartbeat |-> heartbeat, payload_length |-> n, ok |-> FALSE]>>
             ELSE <<[heartbeat |-> heartbeat, payload_length |-> n, ok |-> TRUE]>>
                  \o walk(SubSeq(rest, n + 1, Len(rest)))

\* C19: read as header-then-payload_length-bytes, the buffer of every
\* write_all call, and the whole byte stream the writer accepted, falls
\* into complete frames with no byte left over; every frame with the
\* heartbeat flag has payload_length 0, so it is 8 bytes and the next header
\* follows it at once; and the frames of a call are one heartbeat for an
\* empty drain, else one frame per drained payload with the flag clear and
\* payload_length equal to that payload's length.
C19_HeartbeatWireInvariant ==
    /\ \A i \in 1..Len(writes) :
          LET frames == walk(writes[i].bytes)
              drain == writes[i].drain
          IN  /\ \A k \in 1..Len(frames) :
                    /\ frames[k].ok
                    /\ frames[k].heartbeat => frames[k].payload_length = 0
                    /\ frames[k].heartbeat <=> drain = <<>>
              /\ Len(frames) = (IF drain = <<>> THEN 1 ELSE Len(drain))
              /\ drain # <<>> =>
                    \A k \in 1..Len(drain) : frames[k].payload_length = Len(drain[k])
              /\ drain = <<>> => Len(writes[i].bytes) = 8
    /\ \A k \in 1..Len(walk(wire)) :
          /\ walk(wire)[k].ok
          /\ walk(wire)[k].heartbeat => walk(wire)[k].payload_length = 0

\* a heartbeat went out between two drains, the second of two payloads of
\* different lengths
C19_Witness ==
    /\ Len(writes) = 3
    /\ writes[2].drain = <<>>
    /\ Len(writes[3].drain) = 2
    /\ Len(writes[3].drain[1]) # Len(writes[3].drain[2])
    /\ writes[3].result = "ok"

RECURSIVE bytes_of(_)
\* total length of the buffers of the write_all calls that were written and
\* flushed successfully
bytes_of(calls) ==
    IF calls = <<>> THEN 0
    ELSE (IF Head(calls).result = "ok" THEN Len(Head(calls).bytes) ELSE 0)
         + bytes_of(Tail(calls))

\* C20 as stated: the three counters of the write path follow the successful sends:
\* heart_beats_sent counts no heartbeat whose write_all or flush failed,
\* and the send-latency observations and write_bytes_total count exactly
\* the iterations, and the bytes, whose write and flush returned Ok; so an
\* iteration whose write fails leaves all three as they were before it.
C20_CountersFollowSuccess ==
    /\ heart_beats_sent =
          Cardinality({i \in 1..Len(writes) :
                          writes[i].drain = <<>> /\ writes[i].result \notin WriteErrors})
    /\ send_message_duration =
          Cardinality({i \in 1..Len(writes) : writes[i].result = "ok"})
    /\ write_bytes_total = bytes_of(writes)

\* C20, amended: the send-latency observations and write_bytes_total count
\* exactly the iterations, and the bytes, whose write and flush returned
\* Ok, and the step in which a write_all or a flush fails changes none of
\* the three counters; heart_beats_sent is incremented when the heartbeat
\* is built, before its write: it counts every heartbeat write_all was called
\* for, the one whose write or flush fails included.
C20_CountersAmended ==
    /\ [](/\ send_message_duration =
                Cardinality({i \in 1..Len(writes) : writes[i].result = "ok"})
          /\ write_bytes_total = bytes_of(writes)
          /\ heart_beats_sent =
                Cardinality({i \in 1..Len(writes) : writes[i].drain = <<>>}))
    /\ [][/\ (~WriteFailed /\ WriteFailed') =>
                UNCHANGED <<heart_beats_sent, write_bytes_total, send_message_duration>>
          /\ heart_beats_sent' # heart_beats_sent =>
                /\ heart_beats_sent' = heart_beats_sent + 1
                /\ w_pc = "dequeue" /\ w_pc' = "write_all"
                /\ writes'[Len(writes')].result = "pending"]_vars

\* a heartbeat was written and flushed, then the flush of a second heartbeat
\* failed: two heartbeats counted, one write of 8 bytes counted
C20_Witness ==
    /\ Len(writes) = 2
    /\ writes[1].drain = <<>> /\ writes[1].result = "ok"
    /\ writes[2].drain = <<>> /\ writes[2].result = "flush_err"
    /\ heart_beats_sent = 2
    /\ send_message_duration = 1
    /\ write_bytes_total = 8

\* a step in which the pending read of the read task, of the header or of a
\* payload chunk, ends
ReadEnds ==
    /\ r_pc \in {"read_header", "read_chunk"}
    /\ r_pc' # r_pc \/ cur_offset' # cur_offset

\* number of bytes the pending read was issued for
read_size ==
    IF r_pc = "read_header" THEN TRANSPORT_HEADER_SIZE
    ELSE payload_slice(cur_offset, remaining).size

\* what the read task does on Err(class), the class being the only parameter:
\* it counts the error under the label of the class, calls on_disconnect once
\* with its own ids and goes on to return; it takes nothing from the stream,
\* starts no read and hands nothing to the event handler
ErrorAction(class) ==
    /\ r_err' = class
    /\ message_read_errors_total' =
           [message_read_errors_total EXCEPT ![class] = @ + 1]
    /\ disconnects' = Append(disconnects, OwnDisconnect("read"))
    /\ DisconnectsBy("read") = <<>>
    /\ r_pc' = "on_disconnect"
    /\ UNCHANGED <<inbound, read_calls, chunk_reads, events, payload_buffer,
                   remaining, cur_offset, r_header, heart_beats_received,
                   read_bytes_total, r_arc>>

\* C21: a header read or payload chunk read that ends by the timeout is
\* classified TimeOut, one that ends by an I/O error or by the end of the
\* stream before the requested bytes is classified Failed, and one that got
\* its bytes is no error; for either class and either kind of read the task
\* does the same thing, on_disconnect once and then only returns.
C21_ErrorClassesCollapse ==
    [][/\ ReadEnds =>
             /\ reader_event' = "elapsed" => r_err' = "TimeOut"
             /\ reader_event' = "ready_err" => r_err' = "Failed"
             /\ reader_event' = "ready_ok" => r_err' = "none"
             /\ (eof /\ Len(inbound) < read_size) => r_err' = "Failed"
             /\ Len(inbound) < read_size => r_err' \in {"TimeOut", "Failed"}
             /\ r_err' # "none" => ErrorAction(r_err')
       /\ ReadTaskOnlyReturns]_vars

\* the peer closed the stream after a header that announces a payload, the
\* chunk read failed on the end of the stream and the task has returned
\* after its one on_disconnect call
C21_Witness ==
    /\ r_pc = "done"
    /\ eof
    /\ remaining > 0
    /\ Len(inbound) < remaining
    /\ reader_event = "ready_err"
    /\ r_err = "Failed"
    /\ Len(DisconnectsBy("read")) = 1

\* the read task is inside the payload of a frame: a chunk read is pending,
\* or a chunk read ended in the error the task returns with
InPayload ==
    \/ r_pc = "read_chunk"
    \/ r_pc \in {"on_disconnect", "done"} /\ ReadFailed /\ remaining > 0

\* C22: read_one_message returns a frame only when the 8 bytes of its header
\* and the payload_length bytes of its payload were all taken off the
\* stream: every handler call is made with a payload of exactly the length
\* its header announces, a read for which fewer bytes arrived than it asks
\* for never ends in success, and when it ends, by the timeout or the end
\* of the stream, nothing of the frame is handed to the event handler, in
\* that step or later.
C22_NoPartialRead ==
    /\ [](consumed =
             TRANSPORT_HEADER_SIZE * (heart_beats_received + Len(events)
                                        + (IF InPayload THEN 1 ELSE 0))
             + total_bytes(delivered)
             + (IF InPayload THEN cur_offset ELSE 0))
    /\ [][/\ events' # events =>
                LET payload == events'[Len(events')].payload
                IN  /\ Len(payload) = r_header'.payload_length
                    /\ Len(inbound) >= read_size
                    /\ r_pc = "read_chunk" =>
                          /\ read_size = remaining
                          /\ payload = payload_buffer \o SubSeq(inbound, 1, remaining)
                    /\ r_pc = "read_header" => payload = <<>>
          /\ (ReadEnds /\ Len(inbound) < read_size) =>
                /\ r_err' # "none"
                /\ events' = events
                /\ inbound' = inbound
          /\ ReadFailed => events' = events]_vars

\* after one delivered frame the peer sent a frame cut after the first byte
\* of its payload; the chunk read timed out with that byte arrived, and the
\* task returned with the one handler call of the first frame
C22_Witness ==
    /\ r_pc = "done"
    /\ r_err = "TimeOut"
    /\ Len(inbound) > 0
    /\ Len(inbound) < remaining
    /\ Len(events) = 1

\* C25: the timeout is per read.  Every read_into_buffer call, for the
\* header and for each payload chunk, gets a deadline one full heartbeat
\* timeout after the instant of that call; a read ends in TimeOut only at
\* its own deadline with its bytes still missing, and a read whose bytes
\* are there by its deadline does not time out, however long ago
\* read_one_message was called.  A frame of n chunks is therefore returned
\* up to (n + 1) timeouts after the call.
C25_PerReadTimeout ==
    /\ [](r_pc \in {"read_header", "read_chunk"} =>
             /\ now <= read_deadline
             /\ read_deadline >= read_message_start + heartbeat_timeout)
    /\ [][/\ read_calls' # read_calls =>
                /\ now' = now
                /\ read_deadline' = now + heartbeat_timeout
          /\ (ReadEnds /\ r_err' = "TimeOut") =>
                /\ Len(inbound) < read_size
                /\ now' = read_deadline
          /\ (ReadEnds /\ Len(inbound) >= read_size) => r_err' # "TimeOut"
          /\ events' # events =>
                /\ now' - read_message_start
                      <= (Len(chunk_reads') + 1) * heartbeat_timeout
                /\ disconnects' = disconnects]_vars

\* a frame of MaxChunks chunks was returned with no disconnect: its header
\* read and each chunk read before the last took the whole timeout, so the
\* last chunk read was issued MaxChunks timeouts after the call, and it was
\* over at its deadline
C25_Witness ==
    /\ r_pc = "event_handler"
    /\ Len(chunk_reads) = MaxChunks
    /\ read_deadline = read_message_start + (MaxChunks + 1) * heartbeat_timeout
    /\ now = read_deadline
    /\ r_err = "none"
    /\ disconnects = <<>>

\* C30: the heartbeat timeout runs on reads only.  The read task enters the
\* Err arm only in a step that ends a header or chunk read; while it awaits
\* the event handler it makes no on_disconnect call and records no error,
\* however far the clock runs past the deadline of the last read, and the
\* header read it issues after the handler completed gets the full timeout
\* from that instant.
C30_TimeoutCoversReadsOnly ==
    /\ [](r_pc = "event_handler" => r_err = "none" /\ DisconnectsBy("read") = <<>>)
    /\ [][/\ r_err' # r_err => ReadEnds
          /\ DisconnectsBy("read")' # DisconnectsBy("read") => ReadEnds
          /\ r_pc = "event_handler" =>
                /\ r_pc' \in {"event_handler", "loop"}
                /\ UNCHANGED <<r_err, disconnects, read_deadline,
                               message_read_errors_total>>
          /\ (r_pc = "loop" /\ r_pc' = "read_header") =>
                read_deadline' = now + heartbeat_timeout]_vars

\* the event handler has been pending for more than a heartbeat wait
\* interval past the deadline of the last read, and no on_disconnect call
\* was made
C30_Witness ==
    /\ r_pc = "event_handler"
    /\ now > read_deadline + heartbeat_timeout
    /\ disconnects = <<>>

\* C23: when the event handler call returns an error the read task panics
\* in that step: it makes no on_disconnect call and records no read error,
\* then or later, and once panicked it issues no read, takes no byte off
\* the reader and calls the event handler no more.  Nothing but an error
\* returned by the handler makes the task panic.
C23_HandlerFailureFatal ==
    /\ [](r_pc = "panicked" => r_err = "none" /\ DisconnectsBy("read") = <<>>)
    /\ [](r_pc = "event_handler" =>
             ENABLED (R_HandlerReturns("Err") /\ r_pc' = "panicked"))
    /\ [][/\ r_pc = "event_handler" =>
                /\ r_pc' \in {"event_handler", "loop", "panicked"}
                /\ disconnects' = disconnects
          /\ (r_pc # "panicked" /\ r_pc' = "panicked") =>
                /\ r_pc = "event_handler"
                /\ ~r_arc'
                /\ UNCHANGED <<disconnects, events, read_calls, consumed, r_err,
                               message_read_errors_total>>
          /\ r_pc = "panicked" =>
                UNCHANGED <<r_task, consumed, disconnects>>]_vars

\* the handler returned an error for the second frame while a third was
\* waiting on the reader: the task panicked, no on_disconnect call was made
\* and the third frame stays unread
C23_Witness ==
    /\ r_pc = "panicked"
    /\ Len(events) = 2
    /\ Len(inbound) >= TRANSPORT_HEADER_SIZE
    /\ disconnects = <<>>

\* the task is suspended at an await of its loop body
ReadSuspended == r_pc \in {"read_header", "read_chunk", "event_handler"}
WriteSuspended == w_pc \in {"dequeue", "write_all", "flush"}

\* C24: the two tasks of a connection share no mutable state: a step that
\* changes a variable of the write task changes none of the read task and
\* takes no byte off the reader, and a step that changes a variable of the
\* read task changes none of the write task.  While the read task is
\* suspended in a read or in the event handler, the write task can start
\* its next iteration, get the dequeue result, write and flush; while the
\* write task is suspended in a dequeue, write or flush, the read task can
\* start its next read, take the bytes that arrived and hand a frame on.
C24_DirectionsIndependent ==
    /\ [][/\ w_vars' # w_vars => (r_task' = r_task /\ consumed' = consumed)
          /\ r_task' # r_task => w_vars' = w_vars]_vars
    /\ [](ReadSuspended =>
             /\ WriteTaskRuns => ENABLED WriteTask(JointWriteIters)
             /\ (w_pc = "loop" /\ w_iter < JointWriteIters) =>
                   ENABLED (W_LoopHead(JointWriteIters) /\ w_pc' = "dequeue")
             /\ w_pc = "dequeue" =>
                   /\ ENABLED W_Dequeued(<<>>)
                   /\ send_queue # <<>> => ENABLED W_Dequeued(<<Head(send_queue)>>)
             /\ w_pc = "write_all" => ENABLED W_WriteAll(TRUE)
             /\ w_pc = "flush" => ENABLED W_Flush(TRUE))
    /\ [](WriteSuspended =>
             /\ r_pc = "loop" => ENABLED (R_LoopHead /\ r_pc' = "read_header")
             /\ (r_pc = "read_header" /\ Len(inbound) >= TRANSPORT_HEADER_SIZE) =>
                   ENABLED R_ReadHeader("ready_ok")
             /\ (r_pc = "read_chunk" /\ Len(inbound) >= remaining) =>
                   ENABLED (R_ReadChunk("ready_ok") /\ events' # events)
             /\ r_pc = "event_handler" => ENABLED R_Handled)

\* the read task is in the event handler call of its first frame, not yet
\* completed, and the write task has written and flushed a data frame and a
\* heartbeat and is at its loop head
C24_Witness ==
    /\ r_pc = "event_handler"
    /\ r_upgrades = 1
    /\ Len(events) = 1
    /\ w_pc = "loop"
    /\ Len(writes) = 2
    /\ writes[1].result = "ok" /\ writes[2].result = "ok"
    /\ writes[1].drain # <<>>
    /\ heart_beats_sent = 1
    /\ disconnects = <<>>

\* C26: the Connected record create_connected_state returns holds
\* Some(h2_conn), the handle of the spawned task driving the h2 connection,
\* exactly when use_h2 was set, and None on the raw backend; its peer_addr
\* is the address the function was called with; its role is Client from the
\* h2 client path, Server from the h2 server path, and the role argument
\* from the raw path.  No record is returned before Ok or with Err.
C26_ConnectionRecord ==
    /\ conn.result = "Ok" =>
          /\ conn.connected # None
          /\ LET record == conn.connected[1]
             IN  /\ record.h2_conn # None <=> conn.use_h2
                 /\ record.h2_conn # None <=> conn.h2_conn
                 /\ ~conn.use_h2 => record.h2_conn = None
                 /\ record.peer_addr = conn.peer_addr
                 /\ record.peer_addr = PeerAddr[peer_id]
                 /\ conn.path \in {"raw", "h2_client", "h2_server"}
                 /\ conn.path = "h2_client" => record.role = "Client"
                 /\ conn.path = "h2_server" => record.role = "Server"
                 /\ conn.path = "raw" => record.role = conn.role
                 /\ conn.path = "raw" <=> ~conn.use_h2
    /\ conn.result # "Ok" => conn.connected = None

\* the h2 server path has returned its record for the second peer address,
\* and both tasks have run
C26_Witness ==
    /\ conn.result = "Ok"
    /\ conn.path = "h2_server"
    /\ conn.connected = Some(Connected(PeerAddr.node_b, Some("h2_conn"), "Server"))
    /\ Len(writes) = 1
    /\ Len(events) = 1

\* C29: whenever create_connected_state has returned an error (the h2
\* handshake, ready, send_request, the response or accept failed), none of
\* the tasks this call can spawn exists: no write task, no read task and no
\* task driving the h2 connection.
C29_FailedSetupLeavesNothing ==
    conn.result = "Err" =>
       /\ spawned = <<>>
       /\ w_pc = "none"
       /\ r_pc = "none"
       /\ ~conn.h2_conn

\* C27: for every payload option and heartbeat flag pack_header returns: the
\* result has the length its assertion asks for, so that the assertion never
\* fires before the call and has not fired after it.  What it
\* returns is exactly 8 bytes: byte 0 the version 0, byte 1 the flags, with
\* bit 0 set exactly when heartbeat is true and no other bit set, bytes 2-3
\* the reserved 0, bytes 4-7 the payload length, least significant byte
\* first, which is 0 for None.
C27_EncodeLayout ==
    /\ pack_output.status = "none" =>
          Len(pack_header(pack_payload, pack_input.heartbeat)) = TRANSPORT_HEADER_SIZE
    /\ pack_output.status # "none" =>
          LET result == pack_output.bytes
              len == IF pack_input.payload_len = None THEN 0
                     ELSE pack_input.payload_len[1]
          IN  /\ pack_output.status = "returned"
              /\ Len(result) = 8
              /\ \A i \in 1..8 : result[i] \in 0..255
              /\ result[1] = 0
              /\ result[2] = (IF pack_input.heartbeat THEN 1 ELSE 0)
              /\ result[3] = 0 /\ result[4] = 0
              /\ result[5] = len % 256
              /\ result[6] = (len \div 256) % 256
              /\ result[7] = (len \div 65536) % 256
              /\ result[8] = (len \div 16777216) % 256

\* pack_header was called with heartbeat true and a payload of 65536 bytes:
\* the flag is set and the third byte of the length is 1
C27_Witness ==
    /\ pack_input.heartbeat
    /\ pack_input.payload_len = Some(65536)
    /\ pack_output = [status |-> "returned", bytes |-> <<0, 1, 0, 0, 0, 0, 1, 0>>]

WriteHorizon == dequeue_timeout + heartbeat_timeout + 2

\* one tick passes while the write task is suspended: in the dequeue call,
\* which returns when its timeout ends at the latest, or in write_all or
\* flush, which are awaited as they are
W_Tick ==
    /\ now < WriteHorizon
    /\ \/ w_pc = "dequeue" /\ now < dequeue_deadline
       \/ w_pc \in {"write_all", "flush"}
    /\ now' = now + 1
    /\ UNCHANGED <<cfg_vars, w_vars, disconnects, r_pc, r_arc, r_upgrades, r_header,
                   payload_buffer, remaining, cur_offset, r_err, read_calls,
                   reader_event, chunk_reads, inbound, eof, received, peer_budget,
                   peer_sent, peer_clean, events, heart_beats_received,
                   read_bytes_total, message_read_errors_total,
                   read_message_start, read_deadline>>

InitWT == InitW
NextWT == WriteTask(MaxWriteIters) \/ W_Tick \/ OwnerDrop
SpecWT == InitWT /\ [][NextWT]_vars

\* the write task is suspended in write_all or in flush
WritePending == w_pc \in {"write_all", "flush"}

\* C31: the write task calls on_disconnect only in the step in which the
\* pending write_all or flush returns an error.  No deadline ends a pending
\* write_all or flush: the clock may go on for as long as it is followed, and
\* in every step that leaves the call pending the task sends no heartbeat,
\* makes no dequeue call, does not upgrade weak_self again, writes nothing
\* and reports no disconnect.
C31_WriteHasNoDeadline ==
    /\ [][DisconnectsBy("write")' # DisconnectsBy("write") =>
             /\ WritePending
             /\ w_pc' = "on_disconnect"
             /\ writes'[Len(writes)].result =
                   (IF w_pc = "write_all" THEN "write_err" ELSE "flush_err")
             /\ DisconnectsBy("write")' = <<OwnDisconnect("write")>>]_vars
    /\ [][WritePending /\ w_pc' = w_pc =>
             UNCHANGED <<heart_beats_sent, dequeue_calls, w_upgrades, w_iter, writes,
                         flush_calls, wire, send_queue, disconnects, w_arc>>]_vars
    /\ [](WritePending /\ now < WriteHorizon => ENABLED (W_Tick /\ w_pc' = w_pc))
    /\ [](WritePending => \A d \in 1..Len(writes) : writes[d].result \in
             {"pending", "accepted", "ok"})

\* a write_all call still pending after more ticks than the dequeue timeout
\* and the read timeout together, the owner gone, and no disconnect reported
C31_Witness ==
    /\ w_pc = "write_all"
    /\ now - start_time > dequeue_timeout + heartbeat_timeout
    /\ ~owner
    /\ disconnects = <<>>
    /\ writes[Len(writes)].result = "pending"

(***************************************************************************)
(* C32: the Arc of the iteration.                                          *)
(***************************************************************************)
\* the task is inside an iteration of its loop
WriteIterating == w_pc \in {"dequeue", "write_all", "flush", "on_disconnect"}
ReadIterating == r_pc \in {"read_header", "read_chunk", "event_handler", "on_disconnect"}

\* the on_disconnect calls made in this step
NewDisconnects == SubSeq(disconnects', Len(disconnects) + 1, Len(disconnects'))

\* C32: a task holds the Arc it got at the loop head for the whole
\* iteration, so the manager is alive in every state in which a task is inside
\* an iteration, whether or not the owner has dropped it.  Every on_disconnect
\* call is made by a task holding its Arc, and every write or read error a
\* task saw is followed in the same step by that task's on_disconnect call.
C32_ManagerAliveThroughIteration ==
    /\ [](WriteIterating => w_arc /\ upgrade)
    /\ [](ReadIterating => r_arc /\ upgrade)
    /\ [][\A d \in 1..Len(NewDisconnects) :
             /\ upgrade /\ upgrade'
             /\ NewDisconnects[d].task = "write" => w_arc /\ w_arc'
             /\ NewDisconnects[d].task = "read" => r_arc /\ r_arc']_vars
    /\ [](WriteFailed => DisconnectsBy("write") = <<OwnDisconnect("write")>>)
    /\ [](ReadFailed => DisconnectsBy("read") = <<OwnDisconnect("read")>>)

\* the owner dropped the manager while the write task was inside an
\* iteration, the write of that iteration failed, and the callback was made;
\* the read task holds no Arc
C32_Witness ==
    /\ ~owner
    /\ ~r_arc
    /\ w_pc = "on_disconnect"
    /\ w_arc
    /\ WriteFailed
    /\ DisconnectsBy("write") = <<OwnDisconnect("write")>>

(***************************************************************************)
(* Both tasks under a fair scheduler: a task that can take a step          *)
(* eventually takes one, i.e. every pending dequeue, write, flush, read,   *)
(* handler call and on_disconnect call ends.                               *)
(***************************************************************************)
InitF == Init
NextF == Next
SpecF ==
    /\ InitF
    /\ [][NextF]_vars
    /\ WF_vars(WriteTask(JointWriteIters))
    /\ WF_vars(ReadTask)

\* the write task is held at the loop head by the bound on the iterations
\* explored, not by the program
HeldByBound == w_pc = "loop" /\ w_iter >= JointWriteIters /\ upgrade

\* a task starts an iteration in this step
WriteIterationStarts == w_pc = "loop" /\ w_pc' = "dequeue"
ReadIterationStarts == r_pc = "loop" /\ r_pc' = "read_header"

\* C33: once the owner has dropped the manager, and every pending call of
\* the tasks ends, the write task and the read task both terminate, and
\* neither starts an iteration after the drop: each ends the iteration it was
\* in, if any, and returns at its next loop head.
C33_TasksStopAfterOwnerGone ==
    /\ (~owner) ~> (w_pc = "done" \/ HeldByBound)
    /\ (~owner) ~> (r_pc = "done")
    /\ [][~owner => ~WriteIterationStarts /\ ~ReadIterationStarts]_vars

(***************************************************************************)
(* C34: what the read task does with the header it decoded.                *)
(***************************************************************************)
\* the header read of this step returned its 8 bytes
HeaderDecoded == HeaderReadEnds /\ reader_event' = "ready_ok"

\* the 8 bytes the header read of this step returned
header_buffer == SubSeq(inbound, 1, TRANSPORT_HEADER_SIZE)

\* the four fields of a header written out as pack_header writes them
header_bytes(header) ==
    to_le_bytes(header.version, 1) \o to_le_bytes(header.flags, 1)
    \o to_le_bytes(header.reserved, 2) \o to_le_bytes(header.payload_length, 4)

\* C34: the header unpack_header returns for the 8 bytes read holds byte 1
\* as version, byte 2 as flags, bytes 3-4 as reserved and bytes 5-8 as
\* payload_length, little-endian, so that writing the four fields back gives
\* the same 8 bytes.  Whatever version, reserved and other flag bits the
\* header has, the read task goes by bit 0 of flags and by payload_length
\* alone: bit 0 set is a heartbeat, otherwise a payload of payload_length
\* bytes is read (none when it is 0) and delivered; the step records no error
\* and calls on_disconnect not.
C34_DecodeDoesNotValidate ==
    [][HeaderDecoded =>
          /\ header_bytes(r_header') = header_buffer
          /\ r_header'.version = header_buffer[1]
          /\ r_header'.flags = header_buffer[2]
          /\ r_header'.reserved = header_buffer[3] + 256 * header_buffer[4]
          /\ r_header'.payload_length =
                header_buffer[5] + 256 * header_buffer[6]
                + 65536 * header_buffer[7] + 16777216 * header_buffer[8]
          /\ r_pc' = (IF r_header'.flags % 2 = 1 THEN "loop"
                      ELSE IF r_header'.payload_length > 0 THEN "read_chunk"
                      ELSE "event_handler")
          /\ r_pc' = "read_chunk" => remaining' = r_header'.payload_length
          /\ r_pc' = "event_handler" => events' = Append(events,
                [peer_id |-> peer_id, payload |-> <<>>])
          /\ r_pc' = "loop" => heart_beats_received' = heart_beats_received + 1
          /\ UNCHANGED <<r_err, message_read_errors_total, disconnects>>]_vars

\* a data header with version 1, flag bit 1 set and reserved 5 was read, its
\* one payload byte was read and delivered, and no error was recorded
C34_Witness ==
    /\ r_header = [version |-> 1, flags |-> 2, reserved |-> 5, payload_length |-> 1]
    /\ r_pc = "event_handler"
    /\ events = <<[peer_id |-> peer_id, payload |-> <<1>>]>>
    /\ r_err = "none"
    /\ disconnects = <<>>

(***************************************************************************)
(* A link: the write task of one node and the read task of its peer, the   *)
(* reader of the one fed by the writer of the other, with the clock         *)
(* running.  The backend is healthy: write_all and flush return Ok without  *)
(* a tick passing, and the bytes reach the peer's reader as they are        *)
(* written; the dequeue call returns when its timeout ends at the latest.   *)
(***************************************************************************)
\* the bytes the writer accepted reach the reader of the peer
LinkTransfer ==
    /\ Len(received) < Len(wire)
    /\ LET bytes == SubSeq(wire, Len(received) + 1, Len(wire))
       IN  /\ inbound' = inbound \o bytes
           /\ received' = received \o bytes
    /\ UNCHANGED <<cfg_vars, w_vars, disconnects, r_pc, r_arc, r_upgrades, r_header,
                   payload_buffer, remaining, cur_offset, r_err, read_calls,
                   reader_event, chunk_reads, eof, peer_budget, peer_sent, peer_clean,
                   events, heart_beats_received, read_bytes_total,
                   message_read_errors_total, now, read_message_start, read_deadline>>

\* the write task over a backend that returns no error
LinkWriteTask ==
    \/ W_LoopHead(LinkWriteIters)
    \/ \E items \in SeqsUpTo(Payloads, MaxBatch) : W_Dequeued(items)
    \/ W_WriteAll(TRUE)
    \/ W_Flush(TRUE)

\* how a read over that backend ends: with its bytes, or with the timeout
LinkReaderEvents == {"ready_ok", "elapsed"}

\* the read task of the peer; a read ends at the instant of the clock
LinkReadTask ==
    \/ R_LoopHead
    \/ \E event \in LinkReaderEvents : R_ReadHeader(event) /\ now' = now
    \/ \E event \in LinkReaderEvents : R_ReadChunk(event) /\ now' = now
    \/ R_Handled

\* one tick passes when nothing else is due: the write task waits in a
\* dequeue call whose timeout has not ended, every byte written has reached
\* the peer, and the read task waits for bytes in a read whose timeout has
\* not ended
LinkTick ==
    /\ w_pc = "dequeue" /\ now < dequeue_deadline
    /\ Len(received) = Len(wire)
    /\ r_pc \in {"read_header", "read_chunk"}
    /\ Len(inbound) < read_size
    /\ now < read_deadline
    /\ now' = now + 1
    /\ UNCHANGED <<cfg_vars, w_vars, disconnects, r_pc, r_arc, r_upgrades, r_header,
                   payload_buffer, remaining, cur_offset, r_err, read_calls,
                   reader_event, chunk_reads, inbound, eof, received, peer_budget,
                   peer_sent, peer_clean, events, heart_beats_received,
                   read_bytes_total, message_read_errors_total,
                   read_message_start, read_deadline>>

InitLink ==
    /\ InitCfg /\ InitWrite(SeqsUpTo(Payloads, LinkQueue)) /\ InitRead(0)
    /\ conn = ConnectedRaw
    /\ spawned = <<spawn_args("write", peer_id, channel_id, writer_of("tls_stream")),
                   spawn_args("read", peer_id, channel_id, reader_of("tls_stream"))>>
NextLink == LinkWriteTask \/ LinkTransfer \/ LinkReadTask \/ LinkTick
SpecLink == InitLink /\ [][NextLink]_vars

\* the dequeue call of this step returned `items`
DequeueReturns == w_pc = "dequeue" /\ w_pc' = "write_all"

\* C35: a payload without bytes that dequeue returns is sent as a data frame:
\* 8 bytes, all zero (heartbeat flag clear, payload_length 0), in its place
\* among the frames of the drain, and heart_beats_sent is not incremented.
\* On the read side a header with the heartbeat flag clear and
\* payload_length 0 starts no payload read and is handed to the event handler
\* as one message with an empty payload, and is not counted as a heartbeat.
C35_EmptyPayloadIsData ==
    [][/\ (DequeueReturns /\ dequeued' # <<>>) =>
             /\ heart_beats_sent' = heart_beats_sent
             /\ bytes_to_send' = encode_all(dequeued')
             /\ dequeued' = <<<<>>>> => bytes_to_send' = <<0, 0, 0, 0, 0, 0, 0, 0>>
             /\ Len(bytes_to_send') =
                   TRANSPORT_HEADER_SIZE * Len(dequeued') + total_bytes(dequeued')
       /\ (HeaderDecoded /\ header_buffer[2] % 2 = 0
              /\ unpack_header(header_buffer).payload_length = 0) =>
             /\ read_calls' = read_calls
             /\ payload_buffer' = <<>>
             /\ events' = Append(events, [peer_id |-> peer_id, payload |-> <<>>])
             /\ read_bytes_total' = read_bytes_total
             /\ heart_beats_received' = heart_beats_received
             /\ r_pc' = "event_handler"
             /\ inbound' = SubSeq(inbound, TRANSPORT_HEADER_SIZE + 1, Len(inbound))]_vars

\* the one payload the application enqueued has no bytes: it went out as 8
\* zero bytes, no heartbeat was counted on either side, and the peer's event
\* handler got one message with an empty payload
C35_Witness ==
    /\ writes # <<>>
    /\ writes[1].drain = <<<<>>>>
    /\ wire = <<0, 0, 0, 0, 0, 0, 0, 0>>
    /\ heart_beats_sent = 0
    /\ heart_beats_received = 0
    /\ events = <<[peer_id |-> peer_id, payload |-> <<>>]>>
    /\ r_pc = "event_handler"

(***************************************************************************)
(* C36: what one write_all call carries.                                   *)
(***************************************************************************)
\* the frames in the buffer of the i-th write_all call
frames_written(i) == walk(writes[i].bytes)

\* C36: the buffer of every write_all call is either one heartbeat frame, 8
\* bytes and no more, or the data frames of the payloads dequeued, one or
\* more, none of them a heartbeat.  It is the heartbeat exactly when the
\* dequeue of the iteration returned no items; each iteration makes one
\* write_all call, so at most one heartbeat is sent per iteration, and
\* heart_beats_sent counts the iterations that sent one.
C36_WriteIsHeartbeatOrData ==
    /\ \A i \in 1..Len(writes) :
          LET frames == frames_written(i)
              heartbeats == {k \in 1..Len(frames) : frames[k].heartbeat}
          IN  /\ frames # <<>>
              /\ \A k \in 1..Len(frames) : frames[k].ok
              /\ heartbeats # {} =>
                    /\ Len(frames) = 1
                    /\ Len(writes[i].bytes) = TRANSPORT_HEADER_SIZE
                    /\ writes[i].bytes = WireHeader(0, TRUE)
              /\ heartbeats # {} <=> writes[i].drain = <<>>
              /\ heartbeats = {} =>
                    /\ Len(frames) = Len(writes[i].drain)
                    /\ Len(frames) >= 1
    /\ Len(writes) = Drains
    /\ Drains <= w_iter
    /\ heart_beats_sent = Cardinality({i \in 1..Len(writes) : writes[i].drain = <<>>})
    /\ heart_beats_sent <= w_iter

\* three iterations: a heartbeat, then a write with two data frames, one of
\* them of an empty payload, then a heartbeat again
C36_Witness ==
    /\ Len(writes) = 3
    /\ writes[1].drain = <<>>
    /\ Len(writes[2].drain) = 2
    /\ writes[2].drain[1] = <<>>
    /\ writes[3].drain = <<>>
    /\ heart_beats_sent = 2

(***************************************************************************)
(* C37: heartbeats on a healthy link.                                      *)
(***************************************************************************)
\* the read task waits in a read for bytes that have not arrived
ReadWaits == r_pc \in {"read_header", "read_chunk"} /\ Len(inbound) < read_size

\* C37: on a healthy link every frame of the write task, data or heartbeat,
\* starts by the end of the dequeue timeout of its iteration, so at most one
\* send interval (plus the time of the write before it, which is prompt)
\* after the frame before it.  The read task of the peer therefore never
\* waits for bytes longer than one send interval, which is less than its
\* heartbeat timeout: no read ends in TimeOut or Failed, no error is counted
\* and on_disconnect is never called, whether the queue holds payloads or
\* stays empty.
C37_HeartbeatsKeepLinkAlive ==
    /\ [][DequeueReturns =>
             /\ start_time' = now
             /\ start_time' <= dequeue_deadline
             /\ start_time' - start_time <= dequeue_timeout
             /\ dequeued' = <<>> => bytes_to_send' = WireHeader(0, TRUE)]_vars
    /\ [][w_pc = "loop" /\ w_pc' = "dequeue" =>
             /\ now = start_time
             /\ dequeue_deadline' = start_time + dequeue_timeout]_vars
    /\ [](ReadWaits =>
             /\ now - (read_deadline - heartbeat_timeout) <= dequeue_timeout
             /\ now < read_deadline)
    /\ [](/\ r_err = "none"
          /\ reader_event # "elapsed"
          /\ message_read_errors_total = [TimeOut |-> 0, Failed |-> 0]
          /\ disconnects = <<>>
          /\ r_pc # "on_disconnect")

\* the queue stayed empty for the whole run: the write task sent a
\* heartbeat in each of its iterations, each at the end of its dequeue
\* timeout, the clock is past the heartbeat timeout of the reader's first
\* read, and the read task has counted every heartbeat and waits in its next
\* header read with no disconnect
C37_Witness ==
    /\ heart_beats_sent = LinkWriteIters
    /\ heart_beats_received = LinkWriteIters
    /\ events = <<>>
    /\ now = LinkWriteIters * dequeue_timeout
    /\ now > heartbeat_timeout
    /\ r_pc = "read_header"
    /\ read_deadline = now + heartbeat_timeout
    /\ disconnects = <<>>

(***************************************************************************)
(* C38: the chunk loop of read_one_message.                                *)
(***************************************************************************)
\* cur_chunk_size of the iteration the chunk loop is in
cur_chunk_size == payload_slice(cur_offset, remaining).size

\* number of chunk reads a payload of n bytes takes
chunks_of(n) == (n + SOCKET_READ_CHUNK_SIZE - 1) \div SOCKET_READ_CHUNK_SIZE

\* a chunk read returned its bytes in this step
ChunkReadOk == r_pc = "read_chunk" /\ reader_event' = "ready_ok" /\ cur_offset' # cur_offset

\* C38: in every iteration of the chunk loop cur_offset + remaining is the
\* payload_length of the header, remaining is positive, cur_chunk_size is
\* between 1 and remaining (the assertion holds) and the slice
\* [cur_offset, cur_offset + cur_chunk_size) lies inside the payload buffer,
\* whose bytes before cur_offset are filled.  Each successful chunk read
\* moves cur_chunk_size from remaining to cur_offset, so remaining strictly
\* decreases; the loop ends with remaining = 0 and cur_offset =
\* payload_length after ceil(payload_length / SOCKET_READ_CHUNK_SIZE)
\* successful chunk reads.
C38_ChunkLoopInvariant ==
    /\ [](r_pc = "read_chunk" =>
             /\ cur_offset + remaining = r_header.payload_length
             /\ remaining > 0
             /\ cur_chunk_size >= 1
             /\ cur_chunk_size <= remaining
             /\ cur_chunk_size <= SOCKET_READ_CHUNK_SIZE
             /\ cur_offset >= 0
             /\ cur_offset + cur_chunk_size <= r_header.payload_length
             /\ Len(payload_buffer) = cur_offset
             /\ cur_offset = (Len(chunk_reads) - 1) * SOCKET_READ_CHUNK_SIZE
             /\ chunk_reads[Len(chunk_reads)] =
                   [offset |-> cur_offset, size |-> cur_chunk_size])
    /\ [][ChunkReadOk =>
             /\ remaining' = remaining - cur_chunk_size
             /\ remaining' < remaining
             /\ remaining' >= 0
             /\ cur_offset' = cur_offset + cur_chunk_size
             /\ cur_offset' + remaining' = r_header.payload_length
             /\ r_pc' = (IF remaining' > 0 THEN "read_chunk" ELSE "event_handler")]_vars
    /\ [](r_pc = "event_handler" =>
             /\ remaining = 0
             /\ cur_offset = r_header.payload_length
             /\ Len(payload_buffer) = r_header.payload_length
             /\ Len(chunk_reads) = chunks_of(r_header.payload_length))

\* the chunk loop is in its last iteration for a payload one byte longer
\* than MaxChunks - 1 chunks: one byte remains, and the slice is that byte
C38_Witness ==
    /\ r_pc = "read_chunk"
    /\ r_header.payload_length = (MaxChunks - 1) * SOCKET_READ_CHUNK_SIZE + 1
    /\ cur_offset = (MaxChunks - 1) * SOCKET_READ_CHUNK_SIZE
    /\ remaining = 1
    /\ cur_chunk_size = 1
    /\ Len(chunk_reads) = MaxChunks

(***************************************************************************)
(* The read task alone with the clock running, fed by a peer that sends    *)
(* short frames and heartbeats.                                            *)
(***************************************************************************)
InitTS ==
    /\ InitCfg /\ NoWrite /\ InitRead(JointPeerSends)
    /\ conn = Direct
    /\ spawned = <<spawn_args("read", peer_id, channel_id, reader_of("tls_stream"))>>
NextTS == ReadTask \/ JointPeer \/ Tick \/ OwnerDrop
SpecTS == InitTS /\ [][NextTS]_vars

====
